---------------------------- MODULE Spec2Model ----------------------------
(***************************************************************************)
(* Streaming tag-aware tool-call protocol of the SE-Agents library.        *)
(*                                                                         *)
(* Text is a sequence of pieces.  The model's own output (the streamed     *)
(* completion) is a sequence of one-character strings, so that fragment    *)
(* boundaries, the tokenizer's regular expression and the substring tests  *)
(* of the buffer work on characters as in the source.  The literal parts   *)
(* of the messages the code formats itself are written word by word: every *)
(* piece is either all whitespace or free of whitespace, which is all that *)
(* str.split() looks at.                                                   *)
(***************************************************************************)
EXTENDS Integers, Sequences, FiniteSets, TLC

(***************************************************************************)
(* Characters and regular-expression helpers                               *)
(***************************************************************************)

\* Python's \s on the pieces used here.
IsSpace(c) == c \in {" ", "\n", "\t", "\n\n", " \n "}

\* str1 in str2
Contains(s, pat) ==
  \E i \in 1..(Len(s) - Len(pat) + 1) : SubSeq(s, i, i + Len(pat) - 1) = pat

\* s.find(pat, from): the least index >= from where pat occurs, 0 when none.
Find(s, pat, from) ==
  LET hits == {i \in from..(Len(s) - Len(pat) + 1) :
                  SubSeq(s, i, i + Len(pat) - 1) = pat}
  IN IF hits = {} THEN 0 ELSE CHOOSE i \in hits : \A j \in hits : i <= j

\* Length of the maximal run of whitespace starting at index i.
RECURSIVE SpaceRun(_, _)
SpaceRun(s, i) ==
  IF i > Len(s) \/ ~IsSpace(s[i]) THEN 0 ELSE 1 + SpaceRun(s, i + 1)

\* Length of the maximal run of non-whitespace starting at index i.
RECURSIVE WordRun(_, _)
WordRun(s, i) ==
  IF i > Len(s) \/ IsSpace(s[i]) THEN 0 ELSE 1 + WordRun(s, i + 1)

\* str.strip()
RECURSIVE Strip(_)
Strip(s) ==
  IF s = <<>> THEN s
  ELSE IF IsSpace(s[1]) THEN Strip(Tail(s))
  ELSE IF IsSpace(s[Len(s)]) THEN Strip(SubSeq(s, 1, Len(s) - 1))
  ELSE s

\* len(str.split()): the number of maximal runs of non-whitespace.
RECURSIVE WordCount(_)
WordCount(s) ==
  IF s = <<>> THEN 0
  ELSE IF IsSpace(s[1]) THEN WordCount(SubSeq(s, 1 + SpaceRun(s, 1), Len(s)))
  ELSE 1 + WordCount(SubSeq(s, 1 + WordRun(s, 1), Len(s)))

\* re.findall(r"(\s*\S+\s*|\s+)", fragment): a token is a word with the
\* whitespace around it, or a run of whitespace with no word after it.
RECURSIVE Tokenize(_)
Tokenize(s) ==
  IF s = <<>> THEN <<>>
  ELSE LET a == SpaceRun(s, 1)
           b == WordRun(s, a + 1)
           c == SpaceRun(s, a + b + 1)
           n == IF b = 0 THEN a ELSE a + b + c
       IN <<SubSeq(s, 1, n)>> \o Tokenize(SubSeq(s, n + 1, Len(s)))


(***************************************************************************)
(* Markers of the wire protocol                                            *)
(***************************************************************************)

TOOL_CALL_OPEN == <<"<", "t", "o", "o", "l", "_", "c", "a", "l", "l", ">">>
TOOL_CALL_CLOSE == <<"<", "/", "t", "o", "o", "l", "_", "c", "a", "l", "l", ">">>
THINKING_OPEN == <<"<", "t", "h", "i", "n", "k", "i", "n", "g", ">">>
THINKING_CLOSE == <<"<", "/", "t", "h", "i", "n", "k", "i", "n", "g", ">">>
THINKING_NAME == <<"t", "h", "i", "n", "k", "i", "n", "g">>
\* The grave accent cannot be written in a TLA+ string: this piece stands for it.
BACKTICK == "U+0060"
FENCE == <<BACKTICK, BACKTICK, BACKTICK>>
FENCE_XML == <<"x", "m", "l">>
FENCE_TOOL_CODE == <<"t", "o", "o", "l", "_", "c", "o", "d", "e">>

\* Python's None and the empty string: the code only tests their truth value.
None == <<>>

StartsAt(s, i, pat) ==
  /\ i >= 1
  /\ i + Len(pat) - 1 <= Len(s)
  /\ SubSeq(s, i, i + Len(pat) - 1) = pat

(***************************************************************************)
(* _parse_tool_call, step 1: the first fenced code block                   *)
(* re.search(FENCE (?:xml|tool_code)? \s* \n? (.*?) \n? FENCE, DOTALL)      *)
(***************************************************************************)

\* The least r >= q where \n? FENCE matches: a fence, or a newline and a fence.
RECURSIVE FenceEnd(_, _)
FenceEnd(s, r) ==
  IF r > Len(s) THEN 0
  ELSE IF StartsAt(s, r, FENCE) \/ (s[r] = "\n" /\ StartsAt(s, r + 1, FENCE))
       THEN r
       ELSE FenceEnd(s, r + 1)

\* code_block_match that never finds a fenced block.
code_block_match_raw(message) == message

\* group(1) of the match, or the message itself when there is no match.
code_block_match(message) ==
  LET i == Find(message, FENCE, 1)
  IN IF i = 0 \/ Find(message, FENCE, i + 3) = 0 THEN message
     ELSE LET p == IF StartsAt(message, i + 3, FENCE_XML) THEN i + 3 + Len(FENCE_XML)
                   ELSE IF StartsAt(message, i + 3, FENCE_TOOL_CODE)
                        THEN i + 3 + Len(FENCE_TOOL_CODE)
                        ELSE i + 3
              q == p + SpaceRun(message, p)
              r == FenceEnd(message, q)
          IN SubSeq(message, q, r - 1)

(***************************************************************************)
(* _parse_tool_call, step 2: thinking blocks are removed                   *)
(* re.sub(r"<\s*thinking[^>]*>.*?<\s*/\s*thinking\s*>", "", message)       *)
(* (IGNORECASE: the alphabet of the model has lower-case letters only)     *)
(***************************************************************************)

\* End index of r"<\s*thinking[^>]*>" matched at i, 0 when it does not match.
ThinkingOpenEnd(s, i) ==
  IF i > Len(s) \/ s[i] # "<" THEN 0
  ELSE LET a == i + 1 + SpaceRun(s, i + 1)
       IN IF ~StartsAt(s, a, THINKING_NAME) THEN 0
          ELSE Find(s, <<">">>, a + Len(THINKING_NAME))

\* End index of r"<\s*/\s*thinking\s*>" matched at j, 0 when it does not match.
ThinkingCloseEnd(s, j) ==
  IF j > Len(s) \/ s[j] # "<" THEN 0
  ELSE LET a == j + 1 + SpaceRun(s, j + 1)
       IN IF a > Len(s) \/ s[a] # "/" THEN 0
          ELSE LET b == a + 1 + SpaceRun(s, a + 1)
               IN IF ~StartsAt(s, b, THINKING_NAME) THEN 0
                  ELSE LET c == b + Len(THINKING_NAME) + SpaceRun(s, b + Len(THINKING_NAME))
                       IN IF c <= Len(s) /\ s[c] = ">" THEN c ELSE 0

\* The least j >= from where the closing pattern matches, 0 when none.
RECURSIVE ThinkingCloseFrom(_, _)
ThinkingCloseFrom(s, j) ==
  IF j > Len(s) THEN 0
  ELSE IF ThinkingCloseEnd(s, j) # 0 THEN j
  ELSE ThinkingCloseFrom(s, j + 1)

RECURSIVE RemoveThinking(_, _)
RemoveThinking(s, i) ==
  IF i > Len(s) THEN <<>>
  ELSE LET e == ThinkingOpenEnd(s, i)
           j == IF e = 0 THEN 0 ELSE ThinkingCloseFrom(s, e + 1)
       IN IF j = 0 THEN <<s[i]>> \o RemoveThinking(s, i + 1)
          ELSE RemoveThinking(s, ThinkingCloseEnd(s, j) + 1)

strip_thinking(message) ==
  IF Contains(message, THINKING_OPEN) \/ Contains(message, THINKING_CLOSE)
  THEN RemoveThinking(message, 1)
  ELSE message


(***************************************************************************)
(* The tool registry handed to the agent (an input of the run).            *)
(* A tool object is of the class of src/tools.py ("legacy", which has      *)
(* validate_parameters) or of the class of src/se_agents/tools.py          *)
(* ("se_agents", which has _process_parameters and no validate_parameters).*)
(***************************************************************************)

SearchTool ==
  [name |-> <<"s">>, cls |-> "legacy",
   parameters |-> << [name |-> <<"q">>, type |-> "string", required |-> TRUE] >>,
   stream |-> FALSE, param_stream |-> <<>>]

MockIntTool ==
  [name |-> <<"n">>, cls |-> "se_agents",
   parameters |-> << [name |-> <<"v">>, type |-> "int", required |-> TRUE] >>,
   stream |-> FALSE, param_stream |-> <<>>]

\* FinalOutput of src/se_agents/tools.py: its parameter result is declared
\* as the one to stream.
FinalOutput ==
  [name |-> <<"f", "i", "n", "a", "l", "_", "o", "u", "t", "p", "u", "t">>,
   cls |-> "se_agents",
   parameters |->
     << [name |-> <<"r", "e", "s", "u", "l", "t">>, type |-> "string",
         required |-> TRUE] >>,
   stream |-> TRUE, param_stream |-> <<"r", "e", "s", "u", "l", "t">>]

tools == <<SearchTool, MockIntTool, FinalOutput>>

NoTool ==
  [name |-> <<>>, cls |-> "none", parameters |-> <<>>,
   stream |-> FALSE, param_stream |-> <<>>]

\* Agent._get_tool_by_name: the first tool of that name, or None.
get_tool_by_name(tool_name) ==
  LET hits == {i \in 1..Len(tools) : tools[i].name = tool_name}
  IN IF hits = {} THEN NoTool
     ELSE tools[CHOOSE i \in hits : \A j \in hits : i <= j]

ParameterNames(tool) == {tool.parameters[i].name : i \in 1..Len(tool.parameters)}

(***************************************************************************)
(* xml.etree.ElementTree.fromstring("<root>" + tool_content + "</root>")   *)
(* on the alphabet of the model: start tags, end tags, empty elements and  *)
(* character data (attributes, entities and comments need characters the   *)
(* alphabet does not have).                                                *)
(***************************************************************************)

NameChars ==
  {"a", "b", "c", "d", "e", "f", "g", "h", "i", "j", "k", "l", "m", "n", "o",
   "p", "q", "r", "s", "t", "u", "v", "w", "x", "y", "z", "_"}

IsName(s) == s # <<>> /\ \A i \in 1..Len(s) : s[i] \in NameChars

RECURSIVE RStrip(_)
RStrip(s) ==
  IF s # <<>> /\ IsSpace(s[Len(s)]) THEN RStrip(SubSeq(s, 1, Len(s) - 1)) ELSE s

Front(s) == SubSeq(s, 1, Len(s) - 1)

ParseError == [ok |-> FALSE, kids |-> <<>>]

\* stack: the open elements below root; kids: root's children, each with the
\* text before its first sub-element (Element.text); lead: that text is still
\* being read.
RECURSIVE XmlScan(_, _, _, _, _)
XmlScan(s, i, stack, kids, lead) ==
  IF i > Len(s) THEN [ok |-> stack = <<>>, kids |-> kids]
  ELSE IF s[i] = "<"
  THEN LET g == Find(s, <<">">>, i + 1)
           inner == SubSeq(s, i + 1, g - 1)
       IN IF g = 0 THEN ParseError
          ELSE IF inner # <<>> /\ inner[1] = "/"
          THEN LET name == RStrip(Tail(inner))
               IN IF IsName(name) /\ stack # <<>> /\ stack[Len(stack)] = name
                  THEN XmlScan(s, g + 1, Front(stack), kids, FALSE)
                  ELSE ParseError
          ELSE IF inner # <<>> /\ inner[Len(inner)] = "/"
          THEN LET name == RStrip(Front(inner))
               IN IF ~IsName(name) THEN ParseError
                  ELSE IF stack = <<>>
                  THEN XmlScan(s, g + 1, stack,
                               Append(kids, [tag |-> name, text |-> <<>>]), FALSE)
                  ELSE XmlScan(s, g + 1, stack, kids, FALSE)
          ELSE LET name == RStrip(inner)
               IN IF ~IsName(name) THEN ParseError
                  ELSE IF stack = <<>>
                  THEN XmlScan(s, g + 1, <<name>>,
                               Append(kids, [tag |-> name, text |-> <<>>]), TRUE)
                  ELSE XmlScan(s, g + 1, Append(stack, name), kids, FALSE)
  ELSE IF lead /\ Len(stack) = 1
       THEN XmlScan(s, i + 1, stack,
                    [kids EXCEPT ![Len(kids)].text = Append(@, s[i])], lead)
       ELSE XmlScan(s, i + 1, stack, kids, lead)

ET_fromstring(tool_content) == XmlScan(tool_content, 1, <<>>, <<>>, FALSE)

(***************************************************************************)
(* _parse_tool_call, steps 3-7                                             *)
(***************************************************************************)

\* re.search(r"<([^>]+)>(.*?)</\1>", tool_call_content, DOTALL), tried from
\* index i on: the name runs to the first ">", the content to the first
\* closing tag of that name.
RECURSIVE tool_name_match(_, _)
tool_name_match(content, i) ==
  IF i > Len(content) THEN [found |-> FALSE, tool_name |-> <<>>, tool_content |-> <<>>]
  ELSE LET g == IF content[i] = "<" THEN Find(content, <<">">>, i + 1) ELSE 0
           name == SubSeq(content, i + 1, g - 1)
           k == IF g > i + 1 THEN Find(content, <<"<", "/">> \o name \o <<">">>, g + 1)
                ELSE 0
       IN IF k = 0 THEN tool_name_match(content, i + 1)
          ELSE [found |-> TRUE, tool_name |-> name,
                tool_content |-> SubSeq(content, g + 1, k - 1)]

NoCall == [tool_name |-> <<>>, params |-> <<>>]

MalformedFormatMessage ==
  <<"Malformed", " ", "tool", " ", "call", " ", "format.", " ", "Please", " ",
    "use", " ", "the", " ", "format:", " ",
    "<tool_call><tool_name>...</tool_name></tool_call>">>

UnknownToolMessage(tool_name) == <<"Unknown", " ", "tool:", " ">> \o tool_name

RECURSIVE JoinNames(_)
JoinNames(ps) ==
  IF ps = <<>> THEN <<>>
  ELSE IF Len(ps) = 1 THEN ps[1].name
  ELSE ps[1].name \o <<",", " ">> \o JoinNames(Tail(ps))

\* ', '.join(expected_params): a set is joined in its iteration order, here
\* the order of declaration.
UnexpectedParametersMessage(tool_name, tool) ==
  <<"Unexpected", " ", "parameters", " ", "in", " ", "tool", " ", "call", " ",
    "for", " ">> \o tool_name \o <<".", " ", "Expected:", " ">>
  \o JoinNames(tool.parameters)

\* str(e) of the ParseError is expat's text.
MalformedXmlMessage ==
  <<"Malformed", " ", "XML", " ", "in", " ", "tool", " ", "call:", " ",
    "not", " ", "well-formed", " \n ", "Please", " ", "check", " ", "the", " ",
    "format.">>

\* {child.tag: child.text.strip() if child.text else "" for child in root}
ParamsOf(kids) ==
  LET tags == {kids[i].tag : i \in 1..Len(kids)}
      last(t) == CHOOSE i \in 1..Len(kids) :
                   /\ kids[i].tag = t
                   /\ \A j \in 1..Len(kids) : kids[j].tag = t => j <= i
  IN [t \in tags |-> Strip(kids[last(t)].text)]

\* The tuple returned: len is its length (2 or 3).  In the draft of
\* src/agent.py every return is a pair and there is no raw XML.
ParseResult(len, tool_call, error_message, raw_tool_call_xml) ==
  [len |-> len, tool_call |-> tool_call, error_message |-> error_message,
   raw_tool_call_xml |-> raw_tool_call_xml]

TupleLen(draft) == IF draft = "legacy" THEN 2 ELSE 3

\* ParseParameters taking whatever children the tool element has.
ParseParametersLenient(draft, raw, tool_name, tool, root) ==
  IF ~root.ok
  THEN ParseResult(TupleLen(draft), NoCall, MalformedXmlMessage, raw)
  ELSE ParseResult(TupleLen(draft),
                   [tool_name |-> tool_name, params |-> ParamsOf(root.kids)],
                   None, raw)

\* Lines 233-259: the children of the tool element are the parameters.
ParseParameters(draft, raw, tool_name, tool, root) ==
  IF ~root.ok
  THEN ParseResult(TupleLen(draft), NoCall, MalformedXmlMessage, raw)
  ELSE IF ~({root.kids[i].tag : i \in 1..Len(root.kids)} \subseteq ParameterNames(tool))
  THEN ParseResult(TupleLen(draft), NoCall,
                   UnexpectedParametersMessage(tool_name, tool), raw)
  ELSE ParseResult(TupleLen(draft),
                   [tool_name |-> tool_name, params |-> ParamsOf(root.kids)],
                   None, raw)

\* Lines 228-231: the tool is looked up; an unknown tool returns a pair.
ParseTool(draft, raw, m, tool) ==
  IF tool = NoTool
  THEN ParseResult(2, NoCall, UnknownToolMessage(m.tool_name), None)
  ELSE ParseParameters(draft, raw, m.tool_name, tool, ET_fromstring(m.tool_content))

\* Lines 209-223: the tool element inside the wrapper.
ParseToolName(draft, raw, m) ==
  IF ~m.found
  THEN ParseResult(TupleLen(draft), NoCall, MalformedFormatMessage, None)
  ELSE ParseTool(draft, raw, m, get_tool_by_name(m.tool_name))

\* Lines 206-208, 224-226: re.search(r"<tool_call>(.*?)</tool_call>"), the
\* wrapper opening at o and closing at c (0: no match).
ParseWrapper(draft, message, o, c) ==
  IF c = 0
  THEN ParseResult(TupleLen(draft), NoCall, None, None)
  ELSE ParseToolName(draft,
                     IF draft = "legacy" THEN None
                     ELSE SubSeq(message, o, c + Len(TOOL_CALL_CLOSE) - 1),
                     tool_name_match(SubSeq(message, o + Len(TOOL_CALL_OPEN), c - 1), 1))

WrapperClose(message, o) ==
  IF o = 0 THEN 0 ELSE Find(message, TOOL_CALL_CLOSE, o + Len(TOOL_CALL_OPEN))

ParseFrom(draft, message, o) ==
  ParseWrapper(draft, message, o, WrapperClose(message, o))

ParseMessage(draft, message) ==
  ParseFrom(draft, message, Find(message, TOOL_CALL_OPEN, 1))

parse_tool_call(draft, message) ==
  ParseMessage(draft, strip_thinking(code_block_match(message)))


(***************************************************************************)
(* Events (schemas.py)                                                     *)
(***************************************************************************)

\* The Literal of ResponseEvent.type in the schema each draft imports.
ResponseEventTypes(draft) ==
  IF draft = "legacy"
  THEN {"assistant", "thinking", "tool_call_started", "tool_result", "tool_error"}
  ELSE {"response", "tool_call", "tool_response", "tool_error"}

\* The type each draft gives to its events.
ProseType(draft) == IF draft = "legacy" THEN "assistant" ELSE "response"
ToolCallType(draft) == IF draft = "legacy" THEN "tool_call_started" ELSE "tool_call"
ToolResultType(draft) == IF draft = "legacy" THEN "tool_result" ELSE "tool_response"

\* The events handed to the consumer, with consecutive prose events joined:
\* how a response is cut into prose events depends on the fragments by design.
Log(out, e) ==
  IF /\ out # <<>>
     /\ e.type \in {"response", "assistant"}
     /\ out[Len(out)].type = e.type
  THEN [out EXCEPT ![Len(out)].content = @ \o e.content]
  ELSE Append(out, e)

\* The exceptions that leave the generator, by what raises them.
\* pydantic: the type of the event is not in the Literal
ValidationError == "ValidationError: type"
\* a pair unpacked into three names
UnpackValueError == "ValueError: not enough values to unpack"
\* the tool object has no method validate_parameters
ValidateAttributeError == "AttributeError: validate_parameters"
\* a message of the history is a dict and has no attribute role
RoleAttributeError == "AttributeError: role"
\* pydantic: the content of the event is not a str
ContentValidationError == "ValidationError: content"

\* What calling an "async def execute" returns: a coroutine that has not run.
CoroutineObject == <<"<coroutine object execute>">>

\* yield ResponseEvent(type=..., content=...): pydantic refuses a type that is
\* not in the Literal and a content that is not a str, and the exception
\* leaves the generator.
Yield(draft, b, type, content) ==
  IF type \notin ResponseEventTypes(draft) THEN [b EXCEPT !.exc = ValidationError]
  ELSE IF content = CoroutineObject THEN [b EXCEPT !.exc = ContentValidationError]
  ELSE [b EXCEPT !.out = Log(@, [type |-> type, content |-> content])]

(***************************************************************************)
(* The tag-aware token buffer: the body of the loop over the tokens of a   *)
(* chunk in Agent.run_stream / Agent.process_message                       *)
(***************************************************************************)

\* The locals of the turn as they are set before the stream is read.
NewBuffer ==
  [full_response |-> <<>>, tool_call |-> NoCall, error_message |-> None,
   raw_tool_xml |-> None, halted |-> FALSE, tag_found |-> FALSE,
   thinking_found |-> FALSE, tool_found |-> FALSE, tokens_since_halted |-> 0,
   halted_tokens |-> <<>>, out |-> <<>>, exc |-> ""]

\* str(tool_call) of the older draft, a dict of one key.
RECURSIVE DictItems(_, _)
DictItems(ps, params) ==
  IF ps = <<>> THEN <<>>
  ELSE LET rest == DictItems(Tail(ps), params)
       IN IF ps[1].name \in DOMAIN params
          THEN <<"'">> \o ps[1].name \o <<"':", " ", "'">> \o params[ps[1].name]
               \o <<"'">> \o (IF rest = <<>> THEN <<>> ELSE <<",", " ">> \o rest)
          ELSE rest

StrOfToolCall(tool_call) ==
  <<"{'">> \o tool_call.tool_name \o <<"':", " ", "{">>
  \o DictItems(get_tool_by_name(tool_call.tool_name).parameters, tool_call.params)
  \o <<"}}">>

\* The names the result of _parse_tool_call is unpacked into.
ExpectedTupleLen(draft) == IF draft = "legacy" THEN 2 ELSE 3

\* Lines 368-374: "if error_message".
ReportParseError(draft, b) ==
  IF b.error_message # None
  THEN Yield(draft, [b EXCEPT !.halted = FALSE, !.tokens_since_halted = 0,
                              !.halted_tokens = <<>>],
             "tool_error", b.error_message)
  ELSE b

\* AnnounceToolCall without its event: the call is kept for the dispatcher
\* and nothing is handed to the consumer.
AnnounceToolCallSilently(draft, b) ==
  IF b.exc = "" /\ b.tool_call.tool_name # <<>>
  THEN [b EXCEPT !.tool_found = TRUE, !.halted = FALSE,
                 !.tokens_since_halted = 0, !.halted_tokens = <<>>]
  ELSE b

\* Lines 375-383: "if tool_call".
AnnounceToolCall(draft, b) ==
  IF b.exc = "" /\ b.tool_call.tool_name # <<>>
  THEN Yield(draft, [b EXCEPT !.tool_found = TRUE, !.halted = FALSE,
                              !.tokens_since_halted = 0, !.halted_tokens = <<>>],
             ToolCallType(draft),
             IF draft = "legacy" THEN StrOfToolCall(b.tool_call)
             ELSE b.raw_tool_xml)
  ELSE b

\* Lines 362-366: the result of the parser is unpacked into the locals.
StoreParse(draft, b, r) ==
  IF r.len # ExpectedTupleLen(draft) THEN [b EXCEPT !.exc = UnpackValueError]
  ELSE AnnounceToolCall(draft,
         ReportParseError(draft,
           [b EXCEPT !.tool_call = r.tool_call,
                     !.error_message = r.error_message,
                     !.raw_tool_xml = r.raw_tool_call_xml]))

\* Lines 360-383: the closing tag of the wrapper is in the response.
OnToolCallClose(draft, b) ==
  StoreParse(draft, [b EXCEPT !.tag_found = FALSE],
             parse_tool_call(draft, b.full_response))

\* Lines 385-397: the closing tag of a thinking block is in the response.
OnThinkingClose(draft, b) ==
  LET y == Yield(draft, [b EXCEPT !.tag_found = FALSE, !.thinking_found = TRUE,
                                  !.halted = FALSE, !.tokens_since_halted = 0],
                 "thinking", b.halted_tokens)
  IN IF y.exc # "" THEN y ELSE [y EXCEPT !.halted_tokens = <<>>]

\* ToolCallCloseStep without the test of tool_found: every later token held
\* after the closing tag of the wrapper parses the response again and
\* announces the tool call again.
ToolCallCloseStepParsingAgain(draft, b) ==
  IF Contains(b.full_response, TOOL_CALL_CLOSE)
  THEN OnToolCallClose(draft, b) ELSE b

\* Line 360: "if '</tool_call>' in full_response and not tool_found".
ToolCallCloseStep(draft, b) ==
  IF Contains(b.full_response, TOOL_CALL_CLOSE) /\ ~b.tool_found
  THEN OnToolCallClose(draft, b) ELSE b

\* Lines 385-388: "if '</thinking>' in full_response and not thinking_found".
ThinkingCloseStep(draft, b) ==
  IF b.exc = "" /\ Contains(b.full_response, THINKING_CLOSE) /\ ~b.thinking_found
  THEN OnThinkingClose(draft, b) ELSE b

\* Lines 359-397: the block under "if tag_found".
OnTagFound(draft, b) == ThinkingCloseStep(draft, ToolCallCloseStep(draft, b))

SPECULATIVE_HALT_TOKENS == 5

\* Lines 340-341: the token is held.
HoldToken(b, content) ==
  [b EXCEPT !.tokens_since_halted = @ + 1, !.halted_tokens = @ \o content]

\* TimeoutOrTag with a timeout that waits for one token more.
TimeoutOrTagLate(draft, b) ==
  IF b.tokens_since_halted > SPECULATIVE_HALT_TOKENS + 1 /\ ~b.tag_found
  THEN Yield(draft, [b EXCEPT !.halted = FALSE, !.tokens_since_halted = 0,
                              !.halted_tokens = <<>>],
             ProseType(draft), b.halted_tokens)
  ELSE IF /\ \/ Contains(b.full_response, TOOL_CALL_OPEN)
             \/ Contains(b.full_response, THINKING_OPEN)
          /\ ~b.tag_found
       THEN [b EXCEPT !.tag_found = TRUE]
       ELSE b

\* Lines 343-357: the timeout releases the held tokens as prose; else an
\* opening tag in the response is recognized.
TimeoutOrTag(draft, b) ==
  IF b.tokens_since_halted > SPECULATIVE_HALT_TOKENS /\ ~b.tag_found
  THEN Yield(draft, [b EXCEPT !.halted = FALSE, !.tokens_since_halted = 0,
                              !.halted_tokens = <<>>],
             ProseType(draft), b.halted_tokens)
  ELSE IF /\ \/ Contains(b.full_response, TOOL_CALL_OPEN)
             \/ Contains(b.full_response, THINKING_OPEN)
          /\ ~b.tag_found
       THEN [b EXCEPT !.tag_found = TRUE]
       ELSE b

\* Line 359: "if tag_found".
TagStep(draft, b) ==
  IF b.exc = "" /\ b.tag_found THEN OnTagFound(draft, b) ELSE b

\* Lines 339-397: the block under "if halted".
OnHalted(draft, b, content) ==
  TagStep(draft, TimeoutOrTag(draft, HoldToken(b, content)))

RESPONSE_OPEN == <<"<response>">>
RESPONSE_CLOSE == <<"</response>">>

\* Lines 334-407: one token of a chunk.
ReadToken(b, content) ==
  [b EXCEPT !.full_response = @ \o content,
            !.halted = @ \/ Contains(content, <<"<">>)]

HoldOrPass(draft, wrap, b, content) ==
  IF b.halted THEN OnHalted(draft, b, content)
  ELSE Yield(draft, b, ProseType(draft),
             IF wrap THEN RESPONSE_OPEN \o content \o RESPONSE_CLOSE
             ELSE content)

ProcessToken(draft, wrap, b, content) ==
  HoldOrPass(draft, wrap, ReadToken(b, content), content)

\* Lines 333-407: the tokens of one chunk in order; an exception ends it.
RECURSIVE ProcessTokens(_, _, _, _)
ProcessTokens(draft, wrap, b, parts) ==
  IF parts = <<>> \/ b.exc # "" THEN b
  ELSE ProcessTokens(draft, wrap, ProcessToken(draft, wrap, b, Head(parts)),
                     Tail(parts))

\* Lines 329-333: one chunk of the stream.
ProcessChunk(draft, wrap, b, full_content) ==
  ProcessTokens(draft, wrap, b, Tokenize(full_content))


(***************************************************************************)
(* The dispatcher: Tool.validate_parameters and Agent._execute_tool        *)
(***************************************************************************)

Digits == {"0", "1", "2", "3", "4", "5", "6", "7", "8", "9"}

\* str.isdigit()
IsDigitString(v) == v # <<>> /\ \A i \in 1..Len(v) : v[i] \in Digits

\* str.lower() in ("true", "false"), on the lower-case alphabet of the model
IsBooleanString(v) == v \in {<<"t", "r", "u", "e">>, <<"f", "a", "l", "s", "e">>}

\* Tool.validate_parameters of src/tools.py: the error of one declared
\* parameter, <<>> when it has none.  The values are the strings the parser
\* extracted.
ParameterError(config, params) ==
  IF config.required /\ (config.name \notin DOMAIN params \/ params[config.name] = <<>>)
  THEN <<"Missing", " ", "required", " ", "parameter:", " ">> \o config.name
  ELSE IF config.name \notin DOMAIN params THEN <<>>
  ELSE IF config.type = "int" /\ ~IsDigitString(params[config.name])
  THEN config.name \o <<" ", "must", " ", "be", " ", "an", " ", "integer">>
  ELSE IF config.type = "bool" /\ ~IsBooleanString(params[config.name])
  THEN config.name \o <<" ", "must", " ", "be", " ", "a", " ", "boolean">>
  ELSE <<>>

\* "\n".join(errors)
RECURSIVE validate_parameters(_, _)
validate_parameters(configs, params) ==
  IF configs = <<>> THEN <<>>
  ELSE LET e == ParameterError(configs[1], params)
           rest == validate_parameters(Tail(configs), params)
       IN IF e = <<>> THEN rest
          ELSE IF rest = <<>> THEN e
          ELSE e \o <<"\n">> \o rest

\* What the tool's own execute returns or raises is the tool's business.
ToolResultText == <<"Search", " ", "results">>
ToolExceptionText == <<"boom">>
ExecuteOutcomes == {"returns", "raises", "awaitable"}

\* Agent._execute_tool: [result, success], and exc when an exception leaves
\* it.  outcome is what tool.execute does when it is reached.
execute_tool(tool_name, params, outcome) ==
  LET tool == get_tool_by_name(tool_name)
      errors == validate_parameters(tool.parameters, params)
  IN IF tool = NoTool
     THEN [result |-> UnknownToolMessage(tool_name), success |-> FALSE, exc |-> ""]
     ELSE IF tool.cls # "legacy"
     THEN [result |-> <<>>, success |-> FALSE, exc |-> ValidateAttributeError]
     ELSE IF errors # <<>>
     THEN [result |-> <<"Error:", " ">> \o errors, success |-> FALSE, exc |-> ""]
     ELSE IF outcome = "raises"
     THEN [result |-> <<"Tool", " ", "error:", " ">> \o ToolExceptionText,
           success |-> FALSE, exc |-> ""]
     ELSE IF outcome = "awaitable"
     THEN [result |-> CoroutineObject, success |-> TRUE, exc |-> ""]
     ELSE [result |-> ToolResultText, success |-> TRUE, exc |-> ""]

(***************************************************************************)
(* Tool._process_parameters and Tool._convert_to_list                      *)
(* (src/se_agents/tools.py): the keyword arguments are the pairs of a dict *)
(* in the order of their insertion, the values are strings                 *)
(***************************************************************************)

UpperCaseLetters ==
  <<"A", "B", "C", "D", "E", "F", "G", "H", "I", "J", "K", "L", "M", "N", "O",
    "P", "Q", "R", "S", "T", "U", "V", "W", "X", "Y", "Z">>

LowerCaseLetters ==
  <<"a", "b", "c", "d", "e", "f", "g", "h", "i", "j", "k", "l", "m", "n", "o",
    "p", "q", "r", "s", "t", "u", "v", "w", "x", "y", "z">>

\* str.lower()
lower(v) ==
  [i \in 1..Len(v) |->
     IF \E k \in 1..Len(UpperCaseLetters) : UpperCaseLetters[k] = v[i]
     THEN LowerCaseLetters[CHOOSE k \in 1..Len(UpperCaseLetters) :
                             UpperCaseLetters[k] = v[i]]
     ELSE v[i]]

DecimalDigits == <<"0", "1", "2", "3", "4", "5", "6", "7", "8", "9">>

DigitValue(c) == (CHOOSE k \in 1..Len(DecimalDigits) : DecimalDigits[k] = c) - 1

\* The number a string of digits writes in base 10.
RECURSIVE Decimal(_)
Decimal(ds) ==
  IF ds = <<>> THEN 0
  ELSE Decimal(Front(ds)) * Len(DecimalDigits) + DigitValue(ds[Len(ds)])

\* The exceptions of _process_parameters, by what raises them.
MissingRequiredValueError == "ValueError: Missing required parameter"
NotAParameterKeyError == "KeyError: is not a parameter of the tool"
IntValueError == "ValueError: invalid literal for int() with base 10"
BooleanValueError == "ValueError: cannot be parsed into boolean"

Raised(exc) == [exc |-> exc, value |-> <<>>]
Returned(value) == [exc |-> "", value |-> value]

\* int(value): blanks around the numeral are skipped, a sign may lead it.
int(value) ==
  LET v == Strip(value)
      signed == v # <<>> /\ v[1] \in {"+", "-"}
      ds == IF signed THEN Tail(v) ELSE v
  IN IF ~IsDigitString(ds) THEN Raised(IntValueError)
     ELSE IF signed /\ v[1] = "-" THEN Returned(0 - Decimal(ds))
     ELSE Returned(Decimal(ds))

\* value.split(",")
RECURSIVE SplitOnCommas(_)
SplitOnCommas(value) ==
  LET k == Find(value, <<",">>, 1)
  IN IF k = 0 THEN <<value>>
     ELSE <<SubSeq(value, 1, k - 1)>>
          \o SplitOnCommas(SubSeq(value, k + 1, Len(value)))

\* _convert_to_list that keeps the blanks around the elements.
convert_to_list_untrimmed(value) == SplitOnCommas(value)

\* Tool._convert_to_list of a string: [d.strip() for d in value.split(",")]
convert_to_list(value) ==
  [i \in 1..Len(SplitOnCommas(value)) |-> Strip(SplitOnCommas(value)[i])]

\* Lines 47-55: the boolean.
to_boolean(value) ==
  IF lower(Strip(value)) \notin {<<"t", "r", "u", "e">>, <<"f", "a", "l", "s", "e">>}
  THEN Raised(BooleanValueError)
  ELSE Returned(lower(Strip(value)) = <<"t", "r", "u", "e">>)

\* Lines 42-57: the value by the declared type.
coerce(param_type, value) ==
  IF param_type = "int" THEN int(value)
  ELSE IF param_type = "List[string]" THEN Returned(convert_to_list(value))
  ELSE IF param_type = "bool" THEN to_boolean(value)
  ELSE Returned(value)

\* self.parameters.get(param)
HasConfig(tool, param) ==
  \E i \in 1..Len(tool.parameters) : tool.parameters[i].name = param

ConfigOf(tool, param) ==
  tool.parameters[CHOOSE i \in 1..Len(tool.parameters) :
                    tool.parameters[i].name = param]

\* Lines 36-59: the loop over kwargs.items().
RECURSIVE ProcessEach(_, _, _)
ProcessEach(tool, kwargs, processed_parameters) ==
  IF kwargs = <<>> THEN Returned(processed_parameters)
  ELSE IF ~HasConfig(tool, kwargs[1].name) THEN Raised(NotAParameterKeyError)
  ELSE IF coerce(ConfigOf(tool, kwargs[1].name).type, kwargs[1].value).exc # ""
  THEN Raised(coerce(ConfigOf(tool, kwargs[1].name).type, kwargs[1].value).exc)
  ELSE ProcessEach(tool, Tail(kwargs),
                   (kwargs[1].name :>
                      coerce(ConfigOf(tool, kwargs[1].name).type,
                             kwargs[1].value).value)
                   @@ processed_parameters)

KeysOf(kwargs) == {kwargs[i].name : i \in 1..Len(kwargs)}

\* Lines 32-34: a required parameter is not among the arguments.
LacksRequired(tool, kwargs) ==
  \E i \in 1..Len(tool.parameters) :
    tool.parameters[i].required /\ tool.parameters[i].name \notin KeysOf(kwargs)

\* Tool._process_parameters(**kwargs)
process_parameters(tool, kwargs) ==
  IF LacksRequired(tool, kwargs) THEN Raised(MissingRequiredValueError)
  ELSE ProcessEach(tool, kwargs, <<>>)

(***************************************************************************)
(* History and its truncation                                              *)
(***************************************************************************)

RECURSIVE total_token_count(_)
total_token_count(msgs) ==
  IF msgs = <<>> THEN 0
  ELSE WordCount(Head(msgs).content) + total_token_count(Tail(msgs))

DeleteAt(msgs, i) == SubSeq(msgs, 1, i - 1) \o SubSeq(msgs, i + 1, Len(msgs))

\* Agent._truncate_context_window of src/se_agents/agent.py
RECURSIVE truncate_se_agents(_, _)
truncate_se_agents(msgs, limit) ==
  IF total_token_count(msgs) > limit /\ Len(msgs) > 2
  THEN truncate_se_agents(DeleteAt(msgs, 2), limit)
  ELSE msgs

\* content.split()
RECURSIVE Split(_)
Split(s) ==
  IF s = <<>> THEN <<>>
  ELSE IF IsSpace(s[1]) THEN Split(SubSeq(s, 1 + SpaceRun(s, 1), Len(s)))
  ELSE <<SubSeq(s, 1, WordRun(s, 1))>> \o Split(SubSeq(s, 1 + WordRun(s, 1), Len(s)))

\* " ".join(tokens)
RECURSIVE JoinWords(_)
JoinWords(ws) ==
  IF ws = <<>> THEN <<>>
  ELSE IF Len(ws) = 1 THEN ws[1]
  ELSE ws[1] \o <<" ">> \o JoinWords(Tail(ws))

Max(a, b) == IF a >= b THEN a ELSE b

TRUNCATE_PERCENT == 20

\* truncate_message_content of src/agent.py
truncate_message_content(content, median_token_count) ==
  LET tokens == Split(content)
      x == Max(1, Len(tokens) \div TRUNCATE_PERCENT)
  IN IF Len(tokens) <= median_token_count THEN content
     ELSE JoinWords(SubSeq(tokens, 1, x) \o << <<"...">> >>
                    \o SubSeq(tokens, Len(tokens) - x + 1, Len(tokens)))

\* sorted(tpm)[len(tpm) // 2]
Median(msgs) ==
  LET tpm == [i \in 1..Len(msgs) |-> WordCount(msgs[i].content)]
      k == Len(msgs) \div 2
  IN CHOOSE v \in {tpm[i] : i \in 1..Len(msgs)} :
       /\ Cardinality({i \in 1..Len(msgs) : tpm[i] < v}) <= k
       /\ Cardinality({i \in 1..Len(msgs) : tpm[i] <= v}) > k

\* Agent._truncate_context_window of src/agent.py: the long messages are
\* shortened; when that is not enough and more than two messages are left,
\* the eviction reads msg.role of a dict and raises AttributeError.
truncate_legacy(msgs, limit) ==
  IF total_token_count(msgs) <= limit THEN [messages |-> msgs, exc |-> ""]
  ELSE LET m == Median(msgs)
           cut == [i \in 1..Len(msgs) |->
                     [msgs[i] EXCEPT !.content = truncate_message_content(@, m)]]
       IN IF total_token_count(cut) > limit /\ Len(cut) > 2
          THEN [messages |-> cut, exc |-> RoleAttributeError]
          ELSE [messages |-> cut, exc |-> ""]

truncate_context_window(draft, msgs, limit) ==
  IF draft = "legacy" THEN truncate_legacy(msgs, limit)
  ELSE [messages |-> truncate_se_agents(msgs, limit), exc |-> ""]


(***************************************************************************)
(* The responses the model may stream (inputs of the run)                  *)
(***************************************************************************)

Tag(name) == <<"<">> \o name \o <<">">>
EndTag(name) == <<"<", "/">> \o name \o <<">">>
Element(name, inner) == Tag(name) \o inner \o EndTag(name)
ToolCallXml(inner) == TOOL_CALL_OPEN \o inner \o TOOL_CALL_CLOSE

SearchCall(value) == ToolCallXml(Element(<<"s">>, Element(<<"q">>, value)))

\* "a < b and c > d"
StrayBracketProse ==
  <<"a", " ", "<", " ", "b", " ", "a", "n", "d", " ", "c", " ", ">", " ", "d">>
\* "a <b"
ShortStrayBracket == <<"a", " ", "<", "b">>
\* "Hi <tool_call><s><q>c</q></s></tool_call>"
ProseThenCall == <<"H", "i", " ">> \o SearchCall(<<"c">>)
\* two complete tool calls in sequence
TwoCalls == SearchCall(<<"c">>) \o SearchCall(<<"d">>)
\* "<thinking>x</thinking> ok"
ThinkingThenProse == THINKING_OPEN \o <<"x">> \o THINKING_CLOSE \o <<" ", "o", "k">>
\* "<tool_call>x</tool_call>": a wrapper with no tool element
MalformedWrapper == ToolCallXml(<<"x">>)
\* a tool that is not registered
UnknownToolCall == ToolCallXml(Element(<<"z">>, <<>>))
\* a parameter the tool does not declare
UnexpectedParameterCall == ToolCallXml(Element(<<"s">>, Element(<<"z">>, <<"c">>)))
\* the declared parameter and one the tool does not declare
MixedParameterCall ==
  ToolCallXml(Element(<<"s">>, Element(<<"q">>, <<"c">>) \o Element(<<"z">>, <<"d">>)))
\* "<tool_call><s><q>c</s></tool_call>": the parameter is not closed
MalformedXmlCall == ToolCallXml(Element(<<"s">>, Tag(<<"q">>) \o <<"c">>))
\* the required parameter is missing
MissingParameterCall == ToolCallXml(Element(<<"s">>, <<>>))
\* a call of the tool of the se_agents class
MockIntCall == ToolCallXml(Element(<<"n">>, Element(<<"v">>, <<"3">>)))
\* the same call without its required parameter
MockIntCallWithoutValue == ToolCallXml(Element(<<"n">>, <<>>))
\* "<tool_call><final_output><result> a b </result></final_output></tool_call>"
FinalOutputCall ==
  ToolCallXml(Element(FinalOutput.name,
                      Element(FinalOutput.param_stream,
                              <<" ", "a", " ", "b", " ">>)))
\* the stream ends inside the wrapper / inside the thinking block
UnterminatedCall == TOOL_CALL_OPEN \o Tag(<<"s">>)
UnterminatedThinking == THINKING_OPEN \o <<"x">>
\* a malformed call quoted inside a thinking block
CallInsideThinking == THINKING_OPEN \o MalformedWrapper \o THINKING_CLOSE
\* a call of the search tool quoted inside a thinking block
SearchInsideThinking == THINKING_OPEN \o SearchCall(<<"c">>) \o THINKING_CLOSE
\* a call of the search tool, then "< b c d e f g"
CallThenStrayBracket ==
  SearchCall(<<"c">>)
  \o <<" ", "<", " ", "b", " ", "c", " ", "d", " ", "e", " ", "f", " ", "g">>
\* a thinking block that closes, then a call of the search tool, with and
\* without a blank between them
ThinkingThenCall == THINKING_OPEN \o <<"x">> \o THINKING_CLOSE \o SearchCall(<<"c">>)
ThinkingBlankCall ==
  THINKING_OPEN \o <<"x">> \o THINKING_CLOSE \o <<" ">> \o SearchCall(<<"c">>)
\* a malformed call, then a fenced block, then a bracket
CallThenFence == MalformedWrapper \o FENCE \o <<"y">> \o FENCE \o <<"<">>
Blank == <<" ">>
\* a call of the search tool in a fenced block: the fence inside a thinking
\* block, and with a language tag in prose
FencedCallInThinking ==
  THINKING_OPEN \o FENCE \o SearchCall(<<"c">>) \o FENCE \o THINKING_CLOSE
FencedCallWithLanguage ==
  <<"a", " ">> \o FENCE \o FENCE_XML \o <<"\n">> \o SearchCall(<<"c">>)
  \o <<"\n">> \o FENCE \o <<" ", "b">>

\* Agent._add_system_prompt, "for name in tool.parameters": a line of the
\* usage example for each parameter.
RECURSIVE UsageParameters(_)
UsageParameters(configs) ==
  IF configs = <<>> THEN <<>>
  ELSE Element(configs[1].name, configs[1].name \o <<" ", "h", "e", "r", "e">>)
       \o <<"\n">> \o UsageParameters(Tail(configs))

\* Agent._add_system_prompt, under "# Usage example": what the system prompt
\* shows as the way to call the tool; src/se_agents/agent.py puts the
\* tool_call wrapper around it, src/agent.py does not.
UsageExample(d, tool) ==
  IF d = "legacy"
  THEN Tag(tool.name) \o <<"\n">> \o UsageParameters(tool.parameters)
       \o EndTag(tool.name) \o <<"\n", "\n">>
  ELSE TOOL_CALL_OPEN \o <<"\n">> \o Tag(tool.name) \o <<"\n">>
       \o UsageParameters(tool.parameters) \o EndTag(tool.name) \o <<"\n">>
       \o TOOL_CALL_CLOSE \o <<"\n", "\n">>

\* The model repeats a usage example of the system prompt.
UsageExamples ==
  {UsageExample(d, tools[i]) : d \in {"se_agents", "legacy"}, i \in 1..Len(tools)}

Responses ==
  {StrayBracketProse, ShortStrayBracket, ProseThenCall, TwoCalls,
   ThinkingThenProse, MalformedWrapper, UnknownToolCall,
   UnexpectedParameterCall, MixedParameterCall, MalformedXmlCall, MissingParameterCall,
   MockIntCall, MockIntCallWithoutValue, UnterminatedCall, UnterminatedThinking, CallInsideThinking,
   CallThenFence, Blank, FinalOutputCall, SearchInsideThinking,
   CallThenStrayBracket, ThinkingThenCall, ThinkingBlankCall,
   FencedCallInThinking, FencedCallWithLanguage, <<>>}
  \cup UsageExamples

\* The responses of the runs of several turns.
LoopResponses ==
  {ShortStrayBracket, ProseThenCall, MalformedWrapper, MissingParameterCall,
   CallThenFence, <<>>}

(***************************************************************************)
(* Bounds                                                                  *)
(***************************************************************************)

\* Completions requested in one run.
MaxTurns == 2
\* A chunk of the stream has 1..MaxFrag characters, or is all that is left.
MaxFrag == 2

(***************************************************************************)
(* The conversation loop: Agent.run_stream (src/se_agents/agent.py) and    *)
(* Agent.process_message with stream=True (src/agent.py)                   *)
(***************************************************************************)

VARIABLES
  draft,                 \* which of the two drafts of the agent runs
  wrap_response_chunks,  \* Agent.wrap_response_chunks
  token_limit,           \* Agent.token_limit
  messages,              \* Agent.messages
  pc,                    \* where the generator stands
  turns,                 \* completions requested so far
  response,              \* the text the model streams in this turn
  pos,                   \* characters of it already delivered
  buf,                   \* the locals of the turn, the events yielded in it
  executed,              \* the tool calls dispatched in this turn
  untruncated,           \* the history as the last truncation found it
  enforce_final,         \* Runner.enforce_final
  arguments,             \* the arguments a method of a tool is called with
  returned               \* what the method returned or raised

vars == <<draft, wrap_response_chunks, token_limit, messages, pc, turns,
          response, pos, buf, executed, untruncated, enforce_final,
          arguments, returned>>

TOKEN_LIMIT == 80000
\* A budget small enough for the truncation to act.
SmallTokenLimit == 4

SystemPrompt == <<"system", " ", "prompt">>
UserText == <<"search", " ", "for", " ", "cats">>

system_message == [role |-> "system", content |-> SystemPrompt]

\* The role under which each draft stores the model's turn.
AssistantRole(d) == IF d = "legacy" THEN "assistant" ELSE "response"

\* The agent as its constructor leaves it.
InitAgent(drafts, limits) ==
  /\ draft \in drafts
  /\ wrap_response_chunks = FALSE
  /\ token_limit \in limits
  /\ messages = <<system_message>>
  /\ pc = "idle"
  /\ turns = 0
  /\ response = <<>>
  /\ pos = 0
  /\ buf = NewBuffer
  /\ executed = <<>>
  /\ untruncated = <<system_message>>

\* No method of a tool has been called from outside the agent.
NoArguments == <<>>
NotReturned == [exc |-> "", value |-> <<>>]

\* The agent driven through its own generator, without a runner.
InitWith(limits) ==
  /\ InitAgent({"se_agents", "legacy"}, limits)
  /\ enforce_final = FALSE
  /\ arguments = NoArguments
  /\ returned = NotReturned

\* The conversation loop, with a large and a small token budget.
Init == InitWith({TOKEN_LIMIT, SmallTokenLimit})

\* One turn of the loop under the default budget.
InitStream == InitWith({TOKEN_LIMIT})

\* Line 307: the caller starts the generator with the user's input.
UserInput ==
  /\ pc \in {"idle", "done"}
  /\ turns < MaxTurns
  /\ messages' = Append(messages, [role |-> "user", content |-> UserText])
  /\ pc' = "loop"
  /\ UNCHANGED <<enforce_final, arguments, returned, draft,
                 wrap_response_chunks, token_limit, turns, response, pos,
                 buf, executed, untruncated>>

\* Lines 310-327: the history is truncated, a completion is requested and
\* the locals of the turn are reset.
StartTurn(completions, max_turns) ==
  /\ pc = "loop"
  /\ turns < max_turns
  /\ LET t == truncate_context_window(draft, messages, token_limit)
     IN /\ messages' = t.messages
        /\ IF t.exc # ""
           THEN /\ pc' = "raised"
                /\ buf' = [NewBuffer EXCEPT !.exc = t.exc]
                /\ UNCHANGED <<response, pos, turns>>
           ELSE /\ pc' = "streaming"
                /\ buf' = NewBuffer
                /\ response' \in completions
                /\ pos' = 0
                /\ turns' = turns + 1
  /\ executed' = <<>>
  /\ untruncated' = messages
  /\ UNCHANGED <<enforce_final, arguments, returned, draft,
                 wrap_response_chunks, token_limit>>

FragmentLengths(left) ==
  {k \in 1..left : k <= MaxFrag \/ k = left}

\* StreamChunk storing the chunk in the history as it arrives.
StreamChunkStoring ==
  /\ pc = "streaming"
  /\ pos < Len(response)
  /\ \E k \in FragmentLengths(Len(response) - pos) :
       /\ buf' = ProcessChunk(draft, wrap_response_chunks, buf,
                              SubSeq(response, pos + 1, pos + k))
       /\ pos' = pos + k
       /\ pc' = IF buf'.exc # "" THEN "raised" ELSE "streaming"
       /\ messages' = Append(messages,
                             [role |-> AssistantRole(draft),
                              content |-> SubSeq(response, pos + 1, pos + k)])
  /\ UNCHANGED <<enforce_final, arguments, returned, draft,
                 wrap_response_chunks, token_limit, turns, response,
                 executed, untruncated>>

\* Lines 328-407: one chunk of the stream arrives and its tokens are
\* processed; an exception leaves the generator.
StreamChunk ==
  /\ pc = "streaming"
  /\ pos < Len(response)
  /\ \E k \in FragmentLengths(Len(response) - pos) :
       /\ buf' = ProcessChunk(draft, wrap_response_chunks, buf,
                              SubSeq(response, pos + 1, pos + k))
       /\ pos' = pos + k
       /\ pc' = IF buf'.exc # "" THEN "raised" ELSE "streaming"
  /\ UNCHANGED <<enforce_final, arguments, returned, draft,
                 wrap_response_chunks, token_limit, messages, turns,
                 response, executed, untruncated>>

\* re.search(r"</[^>]+>\s*$", full_response)
EndsWithClosingTag(s) ==
  \E i \in 1..Len(s) :
    /\ StartsAt(s, i, <<"<", "/">>)
    /\ LET g == Find(s, <<">">>, i + 2)
       IN /\ g >= i + 3
          /\ \A j \in (g + 1)..Len(s) : IsSpace(s[j])

\* EndOfStream leaving the text of the turn out of the history.
EndOfStreamNotStoring ==
  /\ pc = "streaming"
  /\ pos = Len(response)
  /\ buf' = IF Strip(buf.full_response) # <<>> /\ ~EndsWithClosingTag(buf.full_response)
            THEN Yield(draft, buf, ProseType(draft), <<"\n">>) ELSE buf
  /\ pc' = IF Strip(buf.full_response) # <<>> THEN "appended" ELSE "done"
  /\ UNCHANGED <<enforce_final, arguments, returned, draft,
                 wrap_response_chunks, token_limit, messages, turns,
                 response, pos, executed, untruncated>>

\* Lines 409-416: the stream has ended.
EndOfStream ==
  /\ pc = "streaming"
  /\ pos = Len(response)
  /\ LET nl == Strip(buf.full_response) # <<>> /\ ~EndsWithClosingTag(buf.full_response)
         b == IF nl THEN Yield(draft, buf, ProseType(draft), <<"\n">>) ELSE buf
     IN /\ buf' = b
        /\ IF Strip(buf.full_response) # <<>>
           THEN /\ messages' = Append(messages, [role |-> AssistantRole(draft),
                                                 content |-> buf.full_response])
                /\ pc' = "appended"
           ELSE /\ messages' = messages
                /\ pc' = "done"
  /\ UNCHANGED <<enforce_final, arguments, returned, draft,
                 wrap_response_chunks, token_limit, turns, response, pos,
                 executed, untruncated>>

FeedbackMessage(error_message) ==
  <<"Tool", " ", "call", " ", "error:", " ">> \o error_message
  \o <<"\n\n", "Please", " ", "try", " ", "again", " ", "with", " ", "the", " ",
       "correct", " ", "format.">>

\* Lines 418-422: the parse error is fed back and the loop goes on.
Feedback ==
  /\ pc = "appended"
  /\ buf.error_message # None
  /\ buf' = Yield(draft, buf, "tool_error", FeedbackMessage(buf.error_message))
  /\ messages' = Append(messages, [role |-> "user",
                                   content |-> FeedbackMessage(buf.error_message)])
  /\ pc' = "loop"
  /\ UNCHANGED <<enforce_final, arguments, returned, draft,
                 wrap_response_chunks, token_limit, turns, response, pos,
                 executed, untruncated>>

\* "\n".join of the lines "- name: description (required|optional, type: t)"
RECURSIVE param_info(_)
param_info(configs) ==
  IF configs = <<>> THEN <<>>
  ELSE <<"-", " ">> \o configs[1].name \o <<":", " ", " ">>
       \o <<IF configs[1].required THEN "(required," ELSE "(optional,", " ",
            "type:", " ", configs[1].type, ")">>
       \o (IF Len(configs) = 1 THEN <<>> ELSE <<"\n">> \o param_info(Tail(configs)))

\* Lines 435-446: what goes to the history after an execution.
history_message(d, tool_name, tool_result, success) ==
  LET tool == get_tool_by_name(tool_name)
      envelope ==
        IF d = "legacy"
        THEN <<"<tool_result>", "\n">> \o tool_result \o <<"\n", "</tool_result>">>
        ELSE <<"<tool_response>", "\n">> \o tool_result
             \o <<"\n", "</tool_response>">>
      hint == <<"\n", "Please", " ", "try", " ", "again", " ", "with", " ", "the",
                " ", "correct", " ", "parameters", " ", "for", " ">>
              \o tool_name \o <<":", "\n">> \o param_info(tool.parameters)
  IN IF ~success /\ tool # NoTool THEN envelope \o <<"\n\n">> \o hint
     ELSE envelope

\* Lines 424-450: the parsed tool call is executed and its result fed back.
Dispatch ==
  /\ pc = "appended"
  /\ buf.error_message = None
  /\ buf.tool_call.tool_name # <<>>
  /\ \E outcome \in ExecuteOutcomes :
       LET tool_name == buf.tool_call.tool_name
           r == execute_tool(tool_name, buf.tool_call.params, outcome)
       IN IF r.exc # ""
          THEN /\ returned' = Raised(r.exc)
               /\ buf' = [buf EXCEPT !.exc = r.exc]
               /\ pc' = "raised"
               /\ UNCHANGED <<messages, executed>>
          ELSE /\ returned' = Returned(<<r.result, r.success>>)
               /\ buf' = Yield(draft, buf,
                               IF r.success THEN ToolResultType(draft)
                               ELSE "tool_error", r.result)
               /\ IF buf'.exc # ""
                  THEN /\ pc' = "raised"
                       /\ UNCHANGED <<messages, executed>>
                  ELSE /\ executed' = Append(executed, buf.tool_call)
                       /\ messages' =
                            Append(messages,
                                   [role |-> "user",
                                    content |->
                                      history_message(draft, tool_name,
                                                      r.result, r.success)])
                       /\ pc' = "loop"
  /\ UNCHANGED <<enforce_final, arguments, draft, wrap_response_chunks,
                 token_limit, turns, response, pos, untruncated>>

\* Finish going round the loop again.
FinishGoingOn ==
  /\ pc = "appended"
  /\ buf.error_message = None
  /\ buf.tool_call.tool_name = <<>>
  /\ pc' = "loop"
  /\ UNCHANGED <<enforce_final, arguments, returned, draft,
                 wrap_response_chunks, token_limit, messages, turns,
                 response, pos, buf, executed, untruncated>>

\* Lines 452-453: neither a tool call nor an error: the loop ends.
Finish ==
  /\ pc = "appended"
  /\ buf.error_message = None
  /\ buf.tool_call.tool_name = <<>>
  /\ pc' = "done"
  /\ UNCHANGED <<enforce_final, arguments, returned, draft,
                 wrap_response_chunks, token_limit, messages, turns,
                 response, pos, buf, executed, untruncated>>

Next ==
  \/ UserInput
  \/ StartTurn(LoopResponses, MaxTurns)
  \/ StreamChunk
  \/ EndOfStream
  \/ Feedback
  \/ Dispatch
  \/ Finish

\* The conversation loop over several turns.
Spec == Init /\ [][Next]_vars

NextStream ==
  \/ UserInput
  \/ StartTurn(Responses, 1)
  \/ StreamChunk
  \/ EndOfStream
  \/ Feedback
  \/ Dispatch
  \/ Finish

\* One turn of the loop, over every response and every way of cutting it
\* into chunks.
SpecStream == InitStream /\ [][NextStream]_vars

(***************************************************************************)
(* The truncation alone, over every short history and every small budget   *)
(***************************************************************************)

\* Messages in a history, the system message included.
MaxHistory == 5
\* The budgets run from 0 to MaxBudget words.
MaxBudget == 8

\* Contents of one, two and four words.
HistoryTexts ==
  {<<"a">>, <<"b", " ", "c">>, <<"d", " ", "e", " ", "f", " ", "g">>}

InitTruncate == InitWith(0..MaxBudget)

\* self.messages.append(...): a turn of the user or of the model is stored.
AppendMessage ==
  /\ pc = "idle"
  /\ Len(messages) < MaxHistory
  /\ \E role \in {"user", AssistantRole(draft)}, content \in HistoryTexts :
       messages' = Append(messages, [role |-> role, content |-> content])
  /\ UNCHANGED <<enforce_final, arguments, returned, draft,
                 wrap_response_chunks, token_limit, pc, turns, response, pos,
                 buf, executed, untruncated>>

\* self._truncate_context_window()
TruncateHistory ==
  /\ pc = "idle"
  /\ LET t == truncate_context_window(draft, messages, token_limit)
     IN /\ messages' = t.messages
        /\ buf' = [buf EXCEPT !.exc = t.exc]
        /\ pc' = IF t.exc # "" THEN "raised" ELSE "truncated"
  /\ untruncated' = messages
  /\ UNCHANGED <<enforce_final, arguments, returned, draft,
                 wrap_response_chunks, token_limit, turns, response, pos,
                 executed>>

NextTruncate ==
  \/ AppendMessage
  \/ TruncateHistory

SpecTruncate == InitTruncate /\ [][NextTruncate]_vars

(***************************************************************************)
(* Runner.run (src/se_agents/runner.py) driving the agent of               *)
(* src/se_agents/agent.py                                                  *)
(***************************************************************************)

\* "async def run_stream(self, user_input: str)": the parameters after self.
RunStreamParameters == <<"user_input">>
\* "self.agent.run_stream(next_input, image_urls)": the arguments of the call.
RunStreamArguments == <<"next_input", "image_urls">>

\* TypeError: Agent.run_stream() takes 2 positional arguments but 3 were given
RunStreamTypeError == "TypeError: run_stream"

\* Runner(agent, enforce_final): the runner imports the agent of se_agents.
InitRunner ==
  /\ InitAgent({"se_agents"}, {TOKEN_LIMIT})
  /\ enforce_final \in BOOLEAN
  /\ arguments = NoArguments
  /\ returned = NotReturned

\* Lines 44-52: the caller iterates Runner.run(user_input, image_urls); the
\* locals of the first round are set and self.agent.run_stream is called.
\* The call has to bind its arguments before any line of run_stream runs; if
\* it did, line 307 of the agent would store the input and the loop start.
RunnerRun ==
  /\ pc = "idle"
  /\ IF Len(RunStreamArguments) # Len(RunStreamParameters)
     THEN /\ pc' = "raised"
          /\ buf' = [buf EXCEPT !.exc = RunStreamTypeError]
          /\ messages' = messages
     ELSE /\ pc' = "loop"
          /\ buf' = buf
          /\ messages' = Append(messages, [role |-> "user", content |-> UserText])
  /\ UNCHANGED <<enforce_final, arguments, returned, draft,
                 wrap_response_chunks, token_limit, turns, response, pos,
                 executed, untruncated>>

NextRunner ==
  \/ AppendMessage
  \/ RunnerRun

\* The runner called on an agent with any short history.
SpecRunner == InitRunner /\ [][NextRunner]_vars

(***************************************************************************)
(* Tool._process_parameters called with every choice of arguments          *)
(***************************************************************************)

\* A tool that declares a parameter of each type.
CoerceTool ==
  [name |-> <<"t">>, cls |-> "se_agents", stream |-> FALSE, param_stream |-> <<>>,
   parameters |->
     << [name |-> <<"count">>, type |-> "int", required |-> TRUE],
        [name |-> <<"verbose">>, type |-> "bool", required |-> FALSE],
        [name |-> <<"tags">>, type |-> "List[string]", required |-> FALSE],
        [name |-> <<"note">>, type |-> "string", required |-> FALSE] >>]

\* "3", " 42 ", "-7", "x3", ""
CountTexts ==
  {<<"3">>, <<" ", "4", "2", " ">>, <<"-", "7">>, <<"x", "3">>, <<>>}
\* "true", "True", "FALSE", " false ", "yes", ""
VerboseTexts ==
  {<<"t", "r", "u", "e">>, <<"T", "r", "u", "e">>, <<"F", "A", "L", "S", "E">>,
   <<" ", "f", "a", "l", "s", "e", " ">>, <<"y", "e", "s">>, <<>>}
\* "a, b,c", "a", "", "a,,b "
TagsTexts ==
  {<<"a", ",", " ", "b", ",", "c">>, <<"a">>, <<>>, <<"a", ",", ",", "b", " ">>}
\* " hi "
NoteTexts == {<<" ", "h", "i", " ">>}
\* the value of an argument the tool does not declare
OtherTexts == {<<"1">>}

\* The argument of that name with one of the values, or no such argument.
MaybeArgument(name, values) ==
  {<<>>} \cup {<<[name |-> name, value |-> v]>> : v \in values}

ArgumentLists ==
  {a \o b \o c \o d \o e :
     a \in MaybeArgument(<<"count">>, CountTexts),
     b \in MaybeArgument(<<"verbose">>, VerboseTexts),
     c \in MaybeArgument(<<"tags">>, TagsTexts),
     d \in MaybeArgument(<<"note">>, NoteTexts),
     e \in MaybeArgument(<<"other">>, OtherTexts)}

InitCoerce ==
  /\ InitAgent({"se_agents"}, {TOKEN_LIMIT})
  /\ enforce_final = FALSE
  /\ arguments \in ArgumentLists
  /\ returned = NotReturned

\* tool._process_parameters(**kwargs), as the execute bodies call it.
ProcessParameters ==
  /\ pc = "idle"
  /\ returned' = process_parameters(CoerceTool, arguments)
  /\ pc' = IF returned'.exc # "" THEN "raised" ELSE "returned"
  /\ UNCHANGED <<enforce_final, arguments, draft, wrap_response_chunks,
                 token_limit, messages, turns, response, pos, buf, executed,
                 untruncated>>

NextCoerce == ProcessParameters

SpecCoerce == InitCoerce /\ [][NextCoerce]_vars

(***************************************************************************)
(* Vocabulary of the properties                                            *)
(***************************************************************************)

ProseTypes == {"response", "assistant"}

HasEvent(out, type) == \E i \in 1..Len(out) : out[i].type = type

CountEvents(out, type) == Cardinality({i \in 1..Len(out) : out[i].type = type})

\* The contents of the events of the given types, in order, joined.
RECURSIVE TextOf(_, _)
TextOf(out, types) ==
  IF out = <<>> THEN <<>>
  ELSE (IF Head(out).type \in types THEN Head(out).content ELSE <<>>)
       \o TextOf(Tail(out), types)

ProseText(out) == TextOf(out, ProseTypes)

IsPrefix(p, s) == Len(p) <= Len(s) /\ SubSeq(s, 1, Len(p)) = p

EndsWith(s, p) == Len(p) <= Len(s) /\ SubSeq(s, Len(s) - Len(p) + 1, Len(s)) = p

\* The text without the line break the loop adds after the stream.
WithoutLineBreak(text) ==
  IF text # <<>> /\ text[Len(text)] = "\n" THEN Front(text) ELSE text

NoRecognizedTag(r) == ~Contains(r, TOOL_CALL_OPEN) /\ ~Contains(r, THINKING_OPEN)

\* An opening tag whose closing tag never comes.
Unterminated(r) ==
  \/ Contains(r, TOOL_CALL_OPEN) /\ ~Contains(r, TOOL_CALL_CLOSE)
  \/ Contains(r, THINKING_OPEN) /\ ~Contains(r, THINKING_CLOSE)

\* The stream of the turn has ended and nothing has been done about it yet.
TurnEnded == pc \in {"appended", "done"} /\ turns >= 1 /\ pos = Len(response)

\* The buffer after the response arrived as one chunk.
WholeResponse == ProcessChunk(draft, wrap_response_chunks, NewBuffer, response)

FirstOfTwoCalls == [tool_name |-> <<"s">>, q |-> <<"c">>]

IsFirstOfTwoCalls(tool_call) ==
  /\ tool_call.tool_name = FirstOfTwoCalls.tool_name
  /\ DOMAIN tool_call.params = {<<"q">>}
  /\ tool_call.params[<<"q">>] = FirstOfTwoCalls.q

(***************************************************************************)
(* The properties                                                          *)
(***************************************************************************)

\* C1: at most one tool is dispatched per model turn.  Whatever the chunks,
\* a turn announces at most one tool call and dispatches at most one; of two
\* complete calls in sequence the second is never parsed or dispatched: a
\* call that is parsed or dispatched is the first.
C1_AtMostOneToolPerTurn ==
  /\ Len(executed) <= 1
  /\ CountEvents(buf.out, ToolCallType(draft)) <= 1
  /\ response = TwoCalls =>
       /\ \A i \in 1..Len(executed) : IsFirstOfTwoCalls(executed[i])
       /\ buf.tool_call.tool_name # <<>> => IsFirstOfTwoCalls(buf.tool_call)

\* C1, its case: both calls have been streamed and one call has been
\* dispatched.
C1_TwoCallsDispatched ==
  /\ response = TwoCalls
  /\ pos = Len(response)
  /\ pc = "loop"
  /\ Len(executed) = 1
  /\ CountEvents(buf.out, ToolCallType(draft)) = 1

\* C2: token-boundary invariance.  However the response is cut into chunks,
\* the events handed out while it streams (prose joined), the tool call
\* parsed and the error kept are those of the response arriving as one chunk,
\* and an exception leaves the stream exactly when it does so for one chunk.
C2_TokenBoundaryInvariance ==
  /\ (pc = "streaming" /\ pos = Len(response)) =>
       /\ WholeResponse.exc = ""
       /\ buf.out = WholeResponse.out
       /\ buf.tool_call.tool_name = WholeResponse.tool_call.tool_name
       /\ buf.error_message = WholeResponse.error_message
  /\ (pc = "raised" /\ buf.exc \in {ValidationError, UnpackValueError}) =>
       WholeResponse.exc = buf.exc

\* C3: no token is silently dropped.  When the stream of a turn has ended,
\* the contents of the events that carry the response (prose, thinking, the
\* announced tool call), joined in order, are the raw response, up to the line
\* break the loop adds; in a turn cut short by a tool call or an error they
\* are a prefix of it, the rest being the payload that was not emitted.
C3_NoTokenDropped ==
  (draft = "se_agents" /\ TurnEnded) =>
    LET text == WithoutLineBreak(TextOf(buf.out, {"response", "thinking", "tool_call"}))
    IN IF HasEvent(buf.out, "tool_error") \/ HasEvent(buf.out, "tool_call")
       THEN IsPrefix(text, response)
       ELSE text = WithoutLineBreak(response)

\* C4: a response with a stray "<" and no recognized opening tag is emitted
\* entirely as prose: every event of the turn is a prose event, none is a
\* tool_error, and their contents joined are the response (up to the line
\* break the loop adds).
C4_StrayBracketIsProse ==
  (TurnEnded /\ Contains(response, <<"<">>) /\ NoRecognizedTag(response)) =>
    /\ \A i \in 1..Len(buf.out) : buf.out[i].type \in ProseTypes
    /\ WithoutLineBreak(ProseText(buf.out)) = WithoutLineBreak(response)

\* C5: failure containment.  No exception leaves the dispatcher: a dispatch
\* ends with a result handed to the loop, and a failed one reports
\* "Tool error: ...", "Error: ..." or "Unknown tool: ..." with success false.
C5_FailureContainment ==
  /\ ~(pc = "raised" /\ buf.exc = ValidateAttributeError)
  /\ (pc = "loop" /\ executed # <<>> /\ buf.out[Len(buf.out)].type = "tool_error") =>
       \E head \in {<<"Tool", " ", "error:", " ">>, <<"Error:", " ">>,
                    <<"Unknown", " ", "tool:", " ">>} :
         IsPrefix(head, buf.out[Len(buf.out)].content)

ParseErrorResponses ==
  {MalformedWrapper, MalformedXmlCall, UnknownToolCall, UnexpectedParameterCall}

\* C6: parsing and schema errors are never fatal.  For a malformed wrapper,
\* malformed XML, an unknown tool or an unexpected parameter, no exception
\* leaves the loop, the loop does not end, and when the stream has ended a
\* tool_error event has been handed out.
C6_ParseErrorsNeverFatal ==
  response \in ParseErrorResponses =>
    /\ pc \notin {"raised", "done"}
    /\ (pc = "appended" => HasEvent(buf.out, "tool_error"))

\* C7: a tool_error of the buffer is followed by the corrective feedback and
\* another turn.  When the stream of a turn that handed out a tool_error has
\* ended, the error is still held, so that the feedback is appended and the
\* loop goes on; the loop never ends after a turn that handed out a
\* tool_error.
C7_ParseErrorGetsAnotherTurn ==
  /\ (pc = "appended" /\ HasEvent(buf.out, "tool_error")) => buf.error_message # None
  /\ (pc = "done" /\ turns >= 1) => ~HasEvent(buf.out, "tool_error")

\* C8: when the stream ends while the buffer holds tokens after a recognized
\* opening tag whose closing tag has not come, a tool_error event has been
\* handed out for the turn.
C8_UnterminatedTagReported ==
  (TurnEnded /\ buf.halted /\ buf.tag_found /\ Unterminated(buf.full_response)) =>
    HasEvent(buf.out, "tool_error")

\* C9: when the stream ends while the buffer holds tokens, no opening tag
\* was recognized and the timeout of five tokens has not fired, the held
\* tokens have been handed out as prose: the prose of the turn ends with them.
C9_HeldTokensFlushed ==
  (/\ TurnEnded
   /\ buf.halted
   /\ ~buf.tag_found
   /\ NoRecognizedTag(buf.full_response)
   /\ buf.tokens_since_halted <= SPECULATIVE_HALT_TOKENS) =>
    EndsWith(WithoutLineBreak(ProseText(buf.out)), buf.halted_tokens)

\* The history with its messages 2..k removed.
KeepFrom(msgs, k) == <<msgs[1]>> \o SubSeq(msgs, k + 1, Len(msgs))

\* A truncation has just run.
Truncated ==
  \/ pc = "truncated"
  \/ pc = "streaming" /\ pos = 0
  \/ pc = "raised" /\ buf.exc = RoleAttributeError

\* C10: truncation keeps both ends.  It returns; a history of at most two
\* messages is left as it is; of a longer one the system message and the
\* messages kept are unchanged, the messages removed are the oldest after
\* the system message, and no more of them are removed than it takes to be
\* within the budget or to be left with two messages.
C10_TruncationKeepsBothEnds ==
  Truncated =>
    /\ pc # "raised"
    /\ LET n == Len(untruncated)
       IN IF n <= 2 THEN messages = untruncated
          ELSE \E k \in 1..(n - 1) :
                 /\ messages = KeepFrom(untruncated, k)
                 /\ total_token_count(messages) <= token_limit \/ k = n - 1
                 /\ \A j \in 1..(k - 1) :
                      total_token_count(KeepFrom(untruncated, j)) > token_limit

\* C11: after any sequence of operations of the agent (construction, turns
\* of the user and of the model, results and feedback appended, truncations)
\* the history is not empty and its first message is the system message.
C11_SystemMessageFirst ==
  /\ Len(messages) >= 1
  /\ messages[1] = system_message

\* The part of C11 about the place and the role alone.
FirstHasSystemRole == Len(messages) >= 1 /\ messages[1].role = "system"

\* C12: every message the loop stores in the history has one of the roles
\* system, user, assistant; the turn of the model is stored as assistant.
C12_RolesOfHistory ==
  \A i \in 1..Len(messages) : messages[i].role \in {"system", "user", "assistant"}

\* The history the completion of this turn was requested with.
HistoryAtRequest == truncate_context_window(draft, untruncated, token_limit).messages

\* The stream of the turn is being read, or an exception has just left the
\* generator while it was.
Streaming ==
  \/ pc = "streaming"
  \/ pc = "raised" /\ buf.exc \in {ValidationError, UnpackValueError}

\* C13: while a turn is streaming the history is what it was when the
\* completion was requested: nothing is stored token by token, so a consumer
\* that stops at any point of the stream leaves the history as it was.
C13_HistoryFrozenWhileStreaming == Streaming => messages = HistoryAtRequest

\* The stream is half read and events have been handed to the consumer.
C13_MidStream ==
  /\ pc = "streaming"
  /\ 0 < pos /\ pos < Len(response)
  /\ buf.out # <<>>
  /\ messages = HistoryAtRequest

\* A message that feeds the result of an execution back.
IsToolResult(m) ==
  /\ m.role = "user"
  /\ IsPrefix(<<"<tool_response>">>, m.content) \/ IsPrefix(<<"<tool_result>">>, m.content)

\* The message the text of this turn is stored as.
TurnMessage == [role |-> AssistantRole(draft), content |-> buf.full_response]

\* C14 as stated: when a tool call is detected the whole text of the turn is
\* in the history before the tool is dispatched, so that every result of a
\* tool in the history follows the message of the model that asked for it.
C14_EveryResultFollowsItsCall ==
  /\ pc = "appended" => messages[Len(messages)] = TurnMessage
  /\ \A i \in 1..Len(messages) :
       IsToolResult(messages[i]) =>
         i >= 2 /\ messages[i - 1].role = AssistantRole(draft)

\* C14, amended: when a tool call is detected the whole text of the turn is
\* in the history before the tool is dispatched, so that the result is
\* appended right after the message of the model that asked for it; a later
\* truncation may evict that message and leave the result second in the
\* history, after the system message.
C14_TurnStoredBeforeDispatch ==
  /\ pc = "appended" => messages[Len(messages)] = TurnMessage
  /\ (pc = "loop" /\ executed # <<>>) =>
       /\ Len(messages) >= 3
       /\ IsToolResult(messages[Len(messages)])
       /\ messages[Len(messages) - 1] = TurnMessage
       /\ Contains(buf.full_response, TOOL_CALL_CLOSE)
  /\ \A i \in 2..Len(messages) :
       IsToolResult(messages[i]) =>
         i = 2 \/ messages[i - 1].role = AssistantRole(draft)

\* A call written after some prose has been dispatched.
C14_CallAfterProseDispatched ==
  /\ pc = "loop"
  /\ executed # <<>>
  /\ response = ProseThenCall
  /\ messages[Len(messages) - 1].content = ProseThenCall

\* A tool call has been detected and the text of the turn stored.
DispatchDue ==
  /\ pc = "appended"
  /\ buf.error_message = None
  /\ buf.tool_call.tool_name # <<>>

ExecutionEventTypes == {"tool_response", "tool_result", "tool_error"}

\* C15: the dispatch of a detected tool call hands one execution event to
\* the consumer, appends the result in its envelope to the history as the
\* input of the next turn and goes round the loop again; it never ends the
\* loop.
C15_DispatchFeedsBackAndGoesOn ==
  [][DispatchDue =>
       /\ pc' = "loop"
       /\ Len(buf'.out) = Len(buf.out) + 1
       /\ buf'.out[Len(buf'.out)].type \in ExecutionEventTypes
       /\ Len(messages') = Len(messages) + 1
       /\ IsToolResult(messages'[Len(messages')])]_vars

\* "<marker>\n{text}\n</marker>"
Envelope(marker, text) ==
  <<"<" \o marker \o ">", "\n">> \o text \o <<"\n", "</" \o marker \o ">">>

\* C16: what is fed back after an execution is <tool_response>, the result
\* and </tool_response> when the tool succeeded, and <tool_error>, the
\* message and </tool_error> when it failed; a failure is never fed back
\* inside the marker of a response.
C16_TwoEnvelopes ==
  (pc = "loop" /\ executed # <<>>) =>
    LET event == buf.out[Len(buf.out)]
        fed == messages[Len(messages)].content
    IN IF event.type = "tool_error"
       THEN fed = Envelope("tool_error", event.content)
       ELSE fed = Envelope("tool_response", event.content)

\* The turn has handed neither a tool call nor an error to the consumer.
PlainTurn ==
  /\ ~HasEvent(buf.out, ToolCallType(draft))
  /\ ~HasEvent(buf.out, "tool_error")

\* C17: a turn whose stream ends with neither a tool call nor an error ends
\* the loop, and once the loop has ended no completion is requested.
C17_PlainTurnEndsLoop ==
  [][/\ (pc = "appended" /\ PlainTurn) => pc' = "done"
     /\ (pc = "streaming" /\ pos = Len(response) /\ PlainTurn) =>
          pc' \in {"appended", "done"}
     /\ pc = "done" => turns' = turns /\ response' = response]_vars

\* The loop has ended after a turn of prose.
C17_ProseTurnDone ==
  /\ pc = "done"
  /\ turns >= 1
  /\ Strip(response) # <<>>
  /\ PlainTurn
  /\ messages[Len(messages)] = TurnMessage

\* Runner.run is over: it has returned or an exception has left it.
RunnerOver == pc \in {"returned", "raised"}

\* A call of final_output has been executed.
FinalOutputExecuted ==
  \E i \in 1..Len(executed) : executed[i].tool_name = FinalOutput.name

\* Lines 139-140 of runner.py: the input of the round after a turn without
\* a tool event.
RepromptFeedback ==
  <<"<feedback>", "\n", "You", " ", "did", " ", "not", " ", "conclude", " ",
    "the", " ", "task", " ", "using", " ", "the", " ", "'final_output'", " ",
    "tool.", " ", "Please", " ", "provide", " ", "the", " ", "final", " ",
    "result", " ", "using", " ", "the", " ", "'final_output'", " ", "tool", " ",
    "now.", "\n", "</feedback>", "\n">>

\* The automatic reprompts the history shows.
Reprompts ==
  Cardinality({i \in 1..Len(messages) : messages[i].content = RepromptFeedback})

\* No run of the runner ever reprompts.
NoReprompt == Reprompts = 0

\* C19: with enforce_final the runner reprompts instead of ending when a
\* turn brings no tool event, so that Runner.run ends only by returning, and
\* only after a call of final_output has been executed.
C19_RunnerEndsOnlyAfterFinalOutput ==
  (enforce_final /\ RunnerOver) => (pc = "returned" /\ FinalOutputExecuted)

\* C20: the reprompts of enforce_final have no cap: a run in which
\* final_output is never called goes on reprompting and never reaches the
\* end of Runner.run.
C20_NoFinalOutputNeverEnds ==
  (enforce_final /\ ~FinalOutputExecuted) => ~RunnerOver

\* The required parameters of the tool that the call leaves out, in the
\* order of their declaration.
RECURSIVE Omitted(_, _)
Omitted(configs, params) ==
  IF configs = <<>> THEN <<>>
  ELSE (IF configs[1].required /\ configs[1].name \notin DOMAIN params
        THEN <<configs[1].name>> ELSE <<>>)
       \o Omitted(Tail(configs), params)

\* "Missing required parameter: a", one line for each name.
RECURSIVE MissingRequiredParameter(_)
MissingRequiredParameter(names) ==
  IF names = <<>> THEN <<>>
  ELSE <<"Missing", " ", "required", " ", "parameter:", " ">> \o names[1]
       \o (IF Len(names) = 1 THEN <<>>
           ELSE <<"\n">> \o MissingRequiredParameter(Tail(names)))

\* The dispatch of the call of this turn is over: its result was fed back,
\* or an exception left the dispatcher.
Dispatched ==
  \/ pc = "loop" /\ executed # <<>>
  \/ pc = "raised" /\ buf.exc = ValidateAttributeError

\* What the call of this turn leaves out.
OmittedByCall ==
  Omitted(get_tool_by_name(buf.tool_call.tool_name).parameters, buf.tool_call.params)

\* C21: a call of any tool that omits a required parameter ends in an error
\* that names exactly the omitted parameters; it is never a generic failure
\* and the body of the tool is not run.
C21_MissingRequiredParameterNamed ==
  (Dispatched /\ OmittedByCall # <<>>) =>
    /\ pc = "loop"
    /\ buf.out[Len(buf.out)] =
         [type |-> "tool_error",
          content |-> <<"Error:", " ">> \o MissingRequiredParameter(OmittedByCall)]

\* The calls of the search tool with a child it does not declare.
UnexpectedParameterResponses == {UnexpectedParameterCall, MixedParameterCall}

\* C22: when the children of the tool element are not all declared
\* parameters of the tool, the parser returns no tool call and an error that
\* lists the expected parameters, and no tool is executed in that turn.
C22_UnexpectedParametersRejected ==
  response \in UnexpectedParameterResponses =>
    /\ parse_tool_call(draft, response).tool_call = NoCall
    /\ parse_tool_call(draft, response).error_message =
         UnexpectedParametersMessage(<<"s">>, SearchTool)
    /\ buf.tool_call = NoCall
    /\ ~HasEvent(buf.out, ToolCallType(draft))
    /\ executed = <<>>

\* The error of the parser has been handed to the consumer and fed back.
C22_UnexpectedParameterFedBack ==
  /\ response = MixedParameterCall
  /\ pc = "loop"
  /\ buf.out[1] = [type |-> "tool_error",
                   content |-> UnexpectedParametersMessage(<<"s">>, SearchTool)]
  /\ messages[Len(messages)].content =
       FeedbackMessage(UnexpectedParametersMessage(<<"s">>, SearchTool))
  /\ executed = <<>>

\* What the numerals, the boolean words and the lists among the chosen
\* values write, blanks around them aside.
IntegerWritten ==
  (<<"3">> :> 3) @@ (<<" ", "4", "2", " ">> :> 42) @@ (<<"-", "7">> :> 0 - 7)

BooleanWritten ==
  (<<"t", "r", "u", "e">> :> TRUE) @@ (<<"T", "r", "u", "e">> :> TRUE)
  @@ (<<"F", "A", "L", "S", "E">> :> FALSE)
  @@ (<<" ", "f", "a", "l", "s", "e", " ">> :> FALSE)

ListWritten ==
  (<<"a", ",", " ", "b", ",", "c">> :> << <<"a">>, <<"b">>, <<"c">> >>)
  @@ (<<"a">> :> << <<"a">> >>)
  @@ (<<>> :> << <<>> >>)
  @@ (<<"a", ",", ",", "b", " ">> :> << <<"a">>, <<>>, <<"b">> >>)

\* The value the arguments give to the parameter.
ArgumentValues(name) ==
  {arguments[i].value : i \in {j \in 1..Len(arguments) : arguments[j].name = name}}

\* {count: "3", verbose: "true", tags: "a, b,c"}
ExampleArguments ==
  << [name |-> <<"count">>, value |-> <<"3">>],
     [name |-> <<"verbose">>, value |-> <<"t", "r", "u", "e">>],
     [name |-> <<"tags">>, value |-> <<"a", ",", " ", "b", ",", "c">>] >>

\* C23: the values are coerced by the declared types: an integer parameter
\* is read as a base-10 numeral, a boolean parameter is accepted only as the
\* word true or false in any case, a string list is split on the commas and
\* its elements are trimmed, a string is left as it is; the coerced mapping
\* has exactly the keys of the input, and the arguments are refused exactly
\* when one of them cannot be coerced, is not declared, or a required one
\* is missing.
C23_CoercionFollowsTypes ==
  /\ pc = "returned" =>
       /\ ArgumentValues(<<"count">>) \cap DOMAIN IntegerWritten # {}
       /\ ArgumentValues(<<"verbose">>) \subseteq DOMAIN BooleanWritten
       /\ ArgumentValues(<<"other">>) = {}
       /\ DOMAIN returned.value = KeysOf(arguments)
       /\ \A v \in ArgumentValues(<<"count">>) :
            returned.value[<<"count">>] = IntegerWritten[v]
       /\ \A v \in ArgumentValues(<<"verbose">>) :
            returned.value[<<"verbose">>] = BooleanWritten[v]
       /\ \A v \in ArgumentValues(<<"tags">>) :
            returned.value[<<"tags">>] = ListWritten[v]
       /\ \A v \in ArgumentValues(<<"note">>) :
            returned.value[<<"note">>] = v
  /\ pc = "raised" =>
       \/ ArgumentValues(<<"count">>) \cap DOMAIN IntegerWritten = {}
       \/ ArgumentValues(<<"verbose">>) \ DOMAIN BooleanWritten # {}
       \/ ArgumentValues(<<"other">>) # {}

\* The example of the specification has been coerced.
C23_ExampleCoerced ==
  /\ pc = "returned"
  /\ arguments = ExampleArguments
  /\ returned.value =
       (<<"count">> :> 3) @@ (<<"verbose">> :> TRUE)
       @@ (<<"tags">> :> << <<"a">>, <<"b">>, <<"c">> >>)

\* An opening thinking tag and, after it, a closing one are in the text.
ThinkingBlockClosed(s) ==
  /\ Contains(s, THINKING_OPEN)
  /\ Find(s, THINKING_CLOSE, Find(s, THINKING_OPEN, 1) + Len(THINKING_OPEN)) # 0

\* What stands between the opening and the closing thinking tag, trimmed.
ThinkingContent(s) ==
  Strip(SubSeq(s, Find(s, THINKING_OPEN, 1) + Len(THINKING_OPEN),
               Find(s, THINKING_CLOSE,
                    Find(s, THINKING_OPEN, 1) + Len(THINKING_OPEN)) - 1))

\* C24: once the closing tag of a thinking block has been read, exactly one
\* thinking event has been emitted, its content is what stands between the
\* opening and the closing tag, trimmed, without the tags and without the
\* text outside them, and the buffer is back to NORMAL when the closing tag
\* is the last thing read.
C24_ThinkingEventIsBlockContent ==
  (pc \in {"streaming", "raised"} /\ ThinkingBlockClosed(buf.full_response)) =>
    /\ CountEvents(buf.out, "thinking") = 1
    /\ \A i \in 1..Len(buf.out) :
         buf.out[i].type = "thinking" =>
           buf.out[i].content = ThinkingContent(buf.full_response)
    /\ EndsWith(RStrip(buf.full_response), THINKING_CLOSE) => ~buf.halted

\* The tokens of the final_output call that stand between the opening and
\* the closing tag of its streamed parameter.
StreamedTokens == <<"a", " ", "b", " ">>

\* C25: while the call of a tool with a streamable parameter is read, the
\* tokens between the opening and the closing tag of that parameter are
\* handed to the consumer as prose events although the buffer is halted, and
\* no token outside them is: the prose of the turn is a prefix of these
\* tokens, and all of them once the closing tag of the parameter is read.
C25_StreamedParameterForwarded ==
  (response = FinalOutputCall /\ pc \in {"streaming", "raised"}) =>
    /\ IsPrefix(ProseText(buf.out), StreamedTokens)
    /\ Contains(buf.full_response, EndTag(FinalOutput.param_stream)) =>
         ProseText(buf.out) = StreamedTokens

\* The responses whose only tool_call wrapper stands inside a thinking block.
WrapperInsideThinking == {CallInsideThinking, SearchInsideThinking}

\* C26: a tool_call wrapper that stands inside a thinking block is never
\* taken for a tool call, however the stream is cut into chunks: the parser
\* hands no tool call to the buffer, no tool call is announced and no tool
\* is executed.
C26_ThinkingNeverDispatched ==
  response \in WrapperInsideThinking =>
    /\ buf.tool_call = NoCall
    /\ ~HasEvent(buf.out, ToolCallType(draft))
    /\ executed = <<>>

\* The registered tools whose usage example in the prompt of this draft is
\* the response.
ToolsOfUsage == {i \in 1..Len(tools) : response = UsageExample(draft, tools[i])}

\* C27: the usage example the system prompt of the agent shows for a
\* registered tool, given to the parser of that agent, parses without an
\* error to a call of that tool with exactly its declared parameter names.
C27_UsageExampleParses ==
  \A i \in ToolsOfUsage :
    /\ parse_tool_call(draft, response).error_message = None
    /\ parse_tool_call(draft, response).tool_call.tool_name = tools[i].name
    /\ DOMAIN parse_tool_call(draft, response).tool_call.params
         = ParameterNames(tools[i])

\* C28: whatever the execute of the tool is, a function that returns text or
\* one that returns an awaitable, what the dispatcher returns to its caller
\* is one resolved pair of a text and a success flag, never the coroutine
\* itself.
C28_DispatcherResolvesResult ==
  (returned # NotReturned /\ returned.exc = "") =>
    /\ Len(returned.value) = 2
    /\ returned.value[1] # CoroutineObject
    /\ returned.value[2] \in BOOLEAN

\* The buffer holds tokens on the hypothesis of a tag: a "<" halted it and
\* no opening tag has been recognized in the response.
SpeculativeHalt(b) ==
  b.exc = "" /\ b.halted /\ ~b.tag_found /\ NoRecognizedTag(b.full_response)

\* The step of the stream reads exactly one token.
OneTokenRead ==
  /\ pc = "streaming"
  /\ pos' > pos
  /\ Len(Tokenize(SubSeq(response, pos + 1, pos'))) = 1

\* C29: while the buffer is halted by a "<" and no recognized opening tag
\* has appeared, it holds at most 5 tokens, all the tokens read since the
\* halt and in order; the token that makes the count exceed 5 releases the
\* whole hold buffer, that token included, as prose in the order of arrival,
\* empties the buffer, resets the counter and puts the state back to NORMAL.
C29_TimeoutFlushesHeldTokens ==
  /\ [](SpeculativeHalt(buf) =>
          /\ buf.tokens_since_halted \in 1..SPECULATIVE_HALT_TOKENS
          /\ Len(Tokenize(buf.halted_tokens)) <= buf.tokens_since_halted
          /\ EndsWith(buf.full_response, buf.halted_tokens))
  /\ [][(/\ OneTokenRead
         /\ SpeculativeHalt(buf)
         /\ NoRecognizedTag(buf'.full_response)) =>
          IF buf.tokens_since_halted < SPECULATIVE_HALT_TOKENS
          THEN /\ SpeculativeHalt(buf')
               /\ buf'.tokens_since_halted = buf.tokens_since_halted + 1
               /\ buf'.halted_tokens
                    = buf.halted_tokens \o SubSeq(response, pos + 1, pos')
               /\ buf'.out = buf.out
          ELSE /\ buf'.exc = ""
               /\ ~buf'.halted
               /\ buf'.tokens_since_halted = 0
               /\ buf'.halted_tokens = <<>>
               /\ ProseText(buf'.out)
                    = ProseText(buf.out) \o buf.halted_tokens
                      \o SubSeq(response, pos + 1, pos')]_vars

\* The timeout has fired: the "<" that halted the buffer is in the prose.
C29_HeldTokensReleased ==
  /\ pc = "streaming"
  /\ NoRecognizedTag(buf.full_response)
  /\ ~buf.halted
  /\ buf.tokens_since_halted = 0
  /\ Contains(ProseText(buf.out), <<"<">>)

\* How often the marker stands in the text.
Occurrences(s, marker) == Cardinality({i \in 1..Len(s) : StartsAt(s, i, marker)})

\* A recognized opening tag of the text has no closing tag yet.
OpenTagUnclosed(s) ==
  \/ Occurrences(s, TOOL_CALL_OPEN) > Occurrences(s, TOOL_CALL_CLOSE)
  \/ Occurrences(s, THINKING_OPEN) > Occurrences(s, THINKING_CLOSE)

\* C30: in every state of a turn in which the response so far has no
\* recognized opening tag that is still unclosed, also after a thinking
\* block or a tool call of the same response has been closed, at most 5
\* tokens are withheld from the consumer.
C30_BoundedLatency ==
  (pc = "streaming" /\ buf.exc = "" /\ ~OpenTagUnclosed(buf.full_response)) =>
    /\ Len(Tokenize(buf.halted_tokens)) <= SPECULATIVE_HALT_TOKENS
    /\ buf.halted => buf.tokens_since_halted <= SPECULATIVE_HALT_TOKENS

\* The stream of the turn has had its tool-call outcome: a tool call was
\* announced or an error of the parser was reported.
ToolCallOutcome(b) ==
  HasEvent(b.out, ToolCallType(draft)) \/ HasEvent(b.out, "tool_error")

\* C31: once a tool_call event or a tool_error event of the parser has been
\* emitted in a turn, no further token of the stream of that turn is read
\* and the stream of that turn yields no further event.
C31_StreamEndsAtToolCallOutcome ==
  [][(pc = "streaming" /\ ToolCallOutcome(buf)) =>
       (pos' = pos /\ (pc' = "streaming" => buf'.out = buf.out))]_vars

\* The responses with a closed thinking block and then a complete tool call.
ThinkingThenCalls == {ThinkingThenCall, ThinkingBlankCall}

\* C32: when the response is a thinking block that closes and then a
\* complete tool call, the turn has, once the stream is read, emitted the
\* thinking block as an event of its own and after it the tool_call event of
\* the call of the search tool.
C32_ThinkingThenToolCall ==
  (/\ response \in ThinkingThenCalls
   /\ \/ pc = "raised"
      \/ pc = "streaming" /\ pos = Len(response)) =>
    /\ buf.exc = ""
    /\ buf.tool_call.tool_name = SearchTool.name
    /\ \E i, j \in 1..Len(buf.out) :
         /\ i < j
         /\ buf.out[i].type = "thinking"
         /\ buf.out[j].type = ToolCallType(draft)

\* The responses whose first fenced block is a call of the search tool.
FencedCalls == {FencedCallInThinking, FencedCallWithLanguage}

\* C33: when the message has a fenced code block, the parser looks for the
\* tool call in the content of the first fenced block only: the call of the
\* search tool in the fence is parsed, and the result is the one the parser
\* gives for that call alone, whatever stands outside the fence.
C33_FencedBlockPreferred ==
  response \in FencedCalls =>
    /\ parse_tool_call(draft, response)
         = parse_tool_call(draft, SearchCall(<<"c">>))
    /\ parse_tool_call(draft, response).error_message = None
    /\ parse_tool_call(draft, response).tool_call
         = [tool_name |-> SearchTool.name, params |-> (<<"q">> :> <<"c">>)]

\* The buffer has parsed a response whose fence stands inside a thinking
\* block and has found the call in the fence.
C33_FencedCallFound ==
  /\ response = FencedCallInThinking
  /\ buf.full_response = response
  /\ buf.tool_call
       = [tool_name |-> SearchTool.name, params |-> (<<"q">> :> <<"c">>)]

\* The units joined in order.
RECURSIVE Joined(_)
Joined(parts) == IF parts = <<>> THEN <<>> ELSE Head(parts) \o Joined(Tail(parts))

\* A run of whitespace, one "<", one ">", or a run of other characters.
IsElementaryUnit(u) ==
  /\ u # <<>>
  /\ \/ \A i \in 1..Len(u) : IsSpace(u[i])
     \/ u = <<"<">>
     \/ u = <<">">>
     \/ \A i \in 1..Len(u) : ~IsSpace(u[i]) /\ u[i] \notin {"<", ">"}

\* C34: the units a fragment is split into (here the response arriving as
\* one fragment) are elementary, each a run of whitespace, a single "<", a
\* single ">" or a run of characters that are neither, and joined in order
\* they are the fragment.
C34_TokenizationFineGrained ==
  pc = "streaming" =>
    /\ Joined(Tokenize(response)) = response
    /\ \A k \in 1..Len(Tokenize(response)) :
         IsElementaryUnit(Tokenize(response)[k])

\* The call a tool-call event reports: the newer draft hands over the XML of
\* the call, the older draft the text of the parsed dict.
Reports(d, content, tool_call) ==
  IF d = "legacy" THEN content = StrOfToolCall(tool_call)
  ELSE parse_tool_call(d, content).tool_call = tool_call

\* The event at position i of the turn announces the given call, and no
\* result or error of a tool precedes it.
AnnouncedAt(i, tool_call) ==
  /\ buf.out[i].type = ToolCallType(draft)
  /\ Reports(draft, buf.out[i].content, tool_call)
  /\ \A j \in 1..(i - 1) :
       buf.out[j].type \notin {ToolResultType(draft), "tool_error"}

\* C35: every tool executed in a turn was announced earlier in that turn by
\* a tool-call event that reports the same tool name and the same parameters,
\* and a turn without a tool-call event executes no tool.
C35_ExecutionFollowsAnnouncedCall ==
  /\ \A k \in 1..Len(executed) :
       \E i \in 1..Len(buf.out) : AnnouncedAt(i, executed[k])
  /\ ~HasEvent(buf.out, ToolCallType(draft)) => executed = <<>>
  /\ (pc = "appended" /\ buf.tool_call.tool_name # <<>>
      /\ buf.error_message = None) =>
       \E i \in 1..Len(buf.out) : AnnouncedAt(i, buf.tool_call)

\* C35, the case: the second turn of a run has executed the tool its
\* tool-call event announced, and the result event follows that event.
C35_AnnouncedCallExecuted ==
  /\ turns = 2
  /\ pc = "loop"
  /\ Len(executed) = 1
  /\ \E i \in 1..Len(buf.out) :
       /\ AnnouncedAt(i, executed[1])
       /\ \E j \in (i + 1)..Len(buf.out) :
            buf.out[j].type = ToolResultType(draft)

\* C36: every event of the streaming loop is built with a type the
\* ResponseEvent schema of its draft declares, so building an event (prose,
\* thinking, tool call, tool result or tool error) never raises pydantic's
\* ValidationError for the type.
C36_EveryEventTypeDeclared ==
  /\ buf.exc # ValidationError
  /\ \A i \in 1..Len(buf.out) : buf.out[i].type \in ResponseEventTypes(draft)

(***************************************************************************)
(* The two modes of Agent.process_message of the older draft               *)
(***************************************************************************)

\* src/agent.py lines 359-364: the branch of "stream=False": the text of the
\* completion is handed over whole; tool_call and error_message keep the
\* None of line 269.
complete(d, b, text) ==
  IF text = <<>> THEN b
  ELSE LET y == Yield(d, [b EXCEPT !.full_response = text], ProseType(d), text)
       IN IF y.exc = "" /\ ~EndsWithClosingTag(text)
          THEN Yield(d, y, ProseType(d), <<"\n">>) ELSE y

\* src/agent.py lines 264-270, 359-370: a turn of process_message called
\* with stream=False; no stream is read and pos stays 0.
Completion ==
  /\ pc = "streaming"
  /\ draft = "legacy"
  /\ pos = 0
  /\ buf = NewBuffer
  /\ buf' = complete(draft, buf, response)
  /\ IF Strip(response) # <<>>
     THEN /\ messages' = Append(messages, [role |-> AssistantRole(draft),
                                           content |-> response])
          /\ pc' = "appended"
     ELSE /\ messages' = messages
          /\ pc' = "done"
  /\ UNCHANGED <<enforce_final, arguments, returned, draft,
                 wrap_response_chunks, token_limit, turns, response, pos,
                 executed, untruncated>>

NextModes ==
  \/ NextStream
  \/ Completion

SpecModes == InitStream /\ [][NextModes]_vars

\* The locals after the same text has been read as a stream of one chunk.
Streamed(d, text) == ProcessChunk(d, wrap_response_chunks, NewBuffer, text)

\* The turn was answered without a stream: its text is stored and nothing
\* was read from a stream.
AnsweredWithoutStream ==
  /\ pc \in {"appended", "loop", "done"}
  /\ Strip(response) # <<>>
  /\ pos = 0

\* C37: the two modes agree on dispatch: after a turn answered with
\* stream=False a tool call is kept for the dispatcher exactly when the
\* streaming loop fed the same text keeps one, and a parse error is kept for
\* the feedback exactly when the streaming loop keeps one.
C37_ModesAgreeOnDispatch ==
  AnsweredWithoutStream =>
    /\ (buf.tool_call.tool_name # <<>>)
         <=> (Streamed(draft, response).tool_call.tool_name # <<>>)
    /\ (buf.error_message # None)
         <=> (Streamed(draft, response).error_message # None)

\* The turn handed a tool event to the runner: a tool call or a tool error.
TurnHasToolEvent ==
  HasEvent(buf.out, ToolCallType(draft)) \/ HasEvent(buf.out, "tool_error")

\* C38: without enforce_final the runner ends exactly after a turn that
\* brings no tool event or after a call of final_output that succeeded: when
\* Runner.run is over it has returned, at least one turn of the agent has
\* run, and the last turn had no tool event or executed final_output.
C38_RunnerEndsAfterPlainTurnOrFinalOutput ==
  (~enforce_final /\ RunnerOver) =>
    /\ pc = "returned"
    /\ turns >= 1
    /\ FinalOutputExecuted \/ ~TurnHasToolEvent

\* The message kept is the message of the history in its role, and has no
\* more words than it had.
KeptFrom(kept, msg) ==
  kept.role = msg.role /\ WordCount(kept.content) <= WordCount(msg.content)

\* The messages kept are messages of the history, in the order they had.
RECURSIVE KeepOrder(_, _)
KeepOrder(kept, msgs) ==
  IF kept = <<>> THEN TRUE
  ELSE IF msgs = <<>> THEN FALSE
  ELSE IF KeptFrom(Head(kept), Head(msgs))
       THEN KeepOrder(Tail(kept), Tail(msgs))
       ELSE KeepOrder(kept, Tail(msgs))

\* C39: the truncation always ends by returning: it evicts at most
\* len(history) - 2 messages, no message and not the history gains a word,
\* on return the count is within the budget or at most two messages are
\* left, and the messages kept are in the order they had.
C39_TruncationTerminates ==
  pc \in {"truncated", "raised"} =>
    /\ pc = "truncated"
    /\ Len(messages) <= Len(untruncated)
    /\ Len(untruncated) - Len(messages) <= Max(0, Len(untruncated) - 2)
    /\ total_token_count(messages) <= total_token_count(untruncated)
    /\ total_token_count(messages) <= token_limit \/ Len(messages) <= 2
    /\ KeepOrder(messages, untruncated)

=============================================================================
